---- MODULE Spec2Model ----
(***************************************************************************)
(* Verification model of p2play-js: the replication engine (StateManager,  *)
(* ConflictResolver, message guard), the peer fabric (PeerManager) and the *)
(* session facade (P2PGameLibrary).                                        *)
(*                                                                         *)
(* A PlayerId is a JavaScript string; it is modelled as the sequence of    *)
(* its UTF-16 code units so that the string comparisons of the source can  *)
(* be computed.  The value undefined of an optional PlayerId is <<>>.      *)
(* An optional field of a JavaScript object is a record field that is      *)
(* present or absent (tested with DOMAIN).                                 *)
(***************************************************************************)
EXTENDS Integers, Sequences, FiniteSets, TLC

VARIABLES
  state,                  \* StateManager.state (GlobalGameState)
  lastAppliedSeq,         \* StateManager.lastAppliedSeq : PlayerId -> seq
  mode,                   \* ConflictResolver.mode
  authoritativeClientId,  \* options.authoritativeClientId, read by the authority provider
  emitted,                \* events emitted on the bus by the last operation, in order
  peersAtEmit,            \* for each of them, the keys of peers when its listeners ran
  threw,                  \* TRUE iff the last operation raised an exception
  lastOp,                 \* the last operation and its input
  ids,                    \* arguments of the PlayerId order: three PlayerIds
  cmp,                    \* results of the last evaluation of the PlayerId order
  peers,                  \* PeerManager.peers, in insertion order: <<[id, rtc]>>
  pendingInitiators,      \* PeerManager.pendingInitiators, in insertion order
  pendingTimeouts,        \* PeerManager.pendingTimeouts : target id -> the PeerInfo its timer holds
  bufferedRemoteIce,      \* PeerManager.bufferedRemoteIce : id -> number of buffered candidates
  hostId,                 \* PeerManager.hostId
  disposed,               \* PeerManager.disposed
  pingIntervalId,         \* PeerManager.pingIntervalId is set: the ping loop is armed
  registering,            \* number of createOrJoin calls suspended at signaling.register()
  maxPlayers,             \* PeerManager.maxPlayers (0: not set)
  backpressure,           \* PeerManager.backpressure
  infos,                  \* every PeerInfo created so far, with its RTCPeerConnection and channels
  subscribed,             \* the listeners of P2PGameLibrary are registered on the bus
  seqCounters,            \* P2PGameLibrary.seqCounters
  libDisposed,            \* P2PGameLibrary.disposed
  cleanupOnPeerLeave,     \* options.cleanupOnPeerLeave
  userListeners,          \* the event names the application subscribed to with on()
  overlayEnabled,         \* PingOverlay.enabled
  lastFrameTsByPlayer,    \* MovementSystem.lastFrameTsByPlayer
  lastMoveTsByPlayer,     \* MovementSystem.lastMoveTsByPlayer
  cfg,                    \* MovementSystem.cfg
  held,                   \* the objects getState() returned that the application still holds
  sent,                   \* what the last operation handed to data channels and to signaling
  listeners,              \* EventBus.listeners: per event name, the listeners in insertion order
  invoked,                \* the listeners the last emit called, in the order of the calls
  wire,                   \* the library of the peer "1" and its frames in flight to this node
  history                 \* what an application that listens to peerJoin and peerLeave has seen

smVars == <<state, lastAppliedSeq, mode, authoritativeClientId>>
ordVars == <<ids, cmp>>
busVars == <<listeners, invoked>>
envVars == <<wire, history>>
pmVars == <<peers, pendingInitiators, pendingTimeouts, bufferedRemoteIce, hostId, disposed,
            pingIntervalId, registering, maxPlayers, backpressure, infos>>
libVars == <<subscribed, seqCounters, libDisposed, cleanupOnPeerLeave, userListeners, overlayEnabled,
             lastFrameTsByPlayer, lastMoveTsByPlayer, cfg, held>>
obsVars == <<emitted, peersAtEmit, threw, sent, lastOp>>

vars == <<smVars, ordVars, busVars, envVars, pmVars, libVars, obsVars>>

(***************************************************************************)
(* Bounds of the exploration.                                              *)
(***************************************************************************)
MaxSeq == 2
MaxTick == 2
MaxQty == 2
MaxIdLen == 2
MaxRtc == 2

(***************************************************************************)
(* Player ids: "2" (the local node), "1", "10".                            *)
(***************************************************************************)
NoId == <<>>
LocalId == <<50>>
P1 == <<49>>
P10 == <<49, 48>>
SMIds == {LocalId, P1, P10}

(***************************************************************************)
(* Generic helpers for JavaScript objects used as maps.                    *)
(***************************************************************************)
MapSet(f, k, v) == [x \in (DOMAIN f) \cup {k} |-> IF x = k THEN v ELSE f[x]]

\* { ...a, ...b }
Spread(a, b) == [k \in (DOMAIN a) \cup (DOMAIN b) |-> IF k \in DOMAIN b THEN b[k] ELSE a[k]]

Has(obj, field) == field \in DOMAIN obj

Max(a, b) == IF a >= b THEN a ELSE b

\* The value undefined stored under a key (a key assigned undefined is still a key).
Undefined == [undefined |-> TRUE]

\* undefined stored where a list is expected (an entry of inventories)
UndefinedList == <<Undefined>>

\* map[k] ?? dflt, for a map of objects
GetOr(map, k, dflt) == IF k \in DOMAIN map /\ map[k] # Undefined THEN map[k] ELSE dflt

\* map[k] ?? [], for a map of lists
GetOrList(map, k) == IF k \in DOMAIN map /\ map[k] # UndefinedList THEN map[k] ELSE <<>>

EmptyState == [players |-> <<>>, inventories |-> <<>>, objects |-> <<>>, tick |-> 0]

(***************************************************************************)
(* The mutable program state threaded through a handler.  Operators below  *)
(* take such a record and return the record after the call.                *)
(***************************************************************************)
\* performance.now() and Date.now() as the listeners read them, unless the step says
\* otherwise
ListenerNow == 2

W ==
  [state |-> state, lastAppliedSeq |-> lastAppliedSeq, mode |-> mode,
   authoritativeClientId |-> authoritativeClientId,
   peers |-> peers, pendingInitiators |-> pendingInitiators,
   pendingTimeouts |-> pendingTimeouts, bufferedRemoteIce |-> bufferedRemoteIce,
   hostId |-> hostId, disposed |-> disposed, pingIntervalId |-> pingIntervalId,
   registering |-> registering,
   maxPlayers |-> maxPlayers,
   backpressure |-> backpressure, infos |-> infos,
   subscribed |-> subscribed, seqCounters |-> seqCounters, libDisposed |-> libDisposed,
   cleanupOnPeerLeave |-> cleanupOnPeerLeave,
   userListeners |-> userListeners, overlayEnabled |-> overlayEnabled,
   lastFrameTsByPlayer |-> lastFrameTsByPlayer, lastMoveTsByPlayer |-> lastMoveTsByPlayer,
   cfg |-> cfg, held |-> held, perfNow |-> ListenerNow,
   emitted |-> <<>>, peersAtEmit |-> <<>>, threw |-> FALSE, sent |-> <<>>]

\* the listener of the MovementSystem: bus.on("playerMove", ...)
onPlayerMove(w, playerId) ==
  [w EXCEPT !.lastMoveTsByPlayer = MapSet(@, playerId, w.perfNow),
            !.lastFrameTsByPlayer = MapSet(@, playerId, w.perfNow)]

\* EventBus.emit: listeners run synchronously; the event is recorded in order.  The
\* MovementSystem listens on the bus of the facade that built it.
emit(w, ev) ==
  LET w1 == [w EXCEPT !.emitted = Append(@, ev),
                      !.peersAtEmit = Append(@, [i \in 1..Len(w.peers) |-> w.peers[i].id])]
  IN IF w.subscribed /\ ev[1] = "playerMove" THEN onPlayerMove(w1, ev[2]) ELSE w1

\* An exception leaves the handler at once.
Throw(w) == [w EXCEPT !.threw = TRUE]

(***************************************************************************)
(* netMessageGuards.isValidNetMessage                                      *)
(***************************************************************************)
isValidNetMessage(m) ==
  /\ Has(m, "t") /\ Has(m, "from") /\ Has(m, "ts")
  /\ CASE m.t = "move" -> Has(m, "position") /\ Has(m.position, "x") /\ Has(m.position, "y")
       [] m.t = "inventory" -> Has(m, "items")
       [] m.t = "transfer" -> Has(m, "to") /\ Has(m, "item") /\ Has(m.item, "id") /\ Has(m.item, "quantity")
       [] m.t = "state_full" -> Has(m, "state")
       [] m.t = "state_delta" -> Has(m, "delta")
       [] m.t = "payload" -> TRUE
       [] OTHER -> FALSE

(***************************************************************************)
(* ConflictResolver                                                        *)
(***************************************************************************)
\* The authority gate shared by resolveMove / resolveInventory / resolveTransfer:
\*   if (mode === "authoritative") { auth = getAuthoritativeId(); if (auth && from !== auth) return false }
\* an undefined authority id is falsy, so the gate lets every sender through.
AuthorityRejects(w, from) ==
  /\ w.mode = "authoritative"
  /\ w.authoritativeClientId # NoId
  /\ from # w.authoritativeClientId

resolveMove_CreatesBeforeGate(w, msg) ==
  IF msg.t # "move" THEN [ok |-> FALSE, state |-> w.state]
  ELSE
    LET cur == GetOr(w.state.players, msg.from, [id |-> msg.from, position |-> [x |-> 0, y |-> 0]])
        st1 == [w.state EXCEPT !.players = MapSet(@, msg.from, cur)]
    IN IF AuthorityRejects(w, msg.from) THEN [ok |-> FALSE, state |-> st1]
       ELSE [ok |-> TRUE,
             state |-> [st1 EXCEPT !.players[msg.from].position = Spread(@, msg.position)]]

\* The resolvers return [ok, state]: the boolean result and the state after the call.
resolveMove(w, msg) ==
  IF msg.t # "move" THEN [ok |-> FALSE, state |-> w.state]
  ELSE IF AuthorityRejects(w, msg.from) THEN [ok |-> FALSE, state |-> w.state]
  ELSE
    LET cur == GetOr(w.state.players, msg.from, [id |-> msg.from, position |-> [x |-> 0, y |-> 0]])
        p1 == IF Has(msg, "position")
              THEN [cur EXCEPT !.position = Spread(cur.position, msg.position)]
              ELSE cur
        p2 == IF Has(msg, "velocity")
              THEN IF Has(p1, "velocity")
                   THEN [p1 EXCEPT !.velocity = Spread(p1.velocity, msg.velocity)]
                   ELSE Spread(p1, [velocity |-> msg.velocity])
              ELSE p1
    IN [ok |-> TRUE, state |-> [w.state EXCEPT !.players = MapSet(@, msg.from, p2)]]

resolveInventory(w, msg) ==
  IF msg.t # "inventory" THEN [ok |-> FALSE, state |-> w.state]
  ELSE IF AuthorityRejects(w, msg.from) THEN [ok |-> FALSE, state |-> w.state]
  ELSE [ok |-> TRUE, state |-> [w.state EXCEPT !.inventories = MapSet(@, msg.from, msg.items)]]

\* Array.findIndex(i => i.id === id): the first index, 0 when there is none.
FindIndex(inv, id) ==
  IF \E i \in 1..Len(inv) : inv[i].id = id
  THEN CHOOSE i \in 1..Len(inv) : inv[i].id = id /\ \A j \in 1..(i - 1) : inv[j].id # id
  ELSE 0

\* Array.splice(idx, 1)
Splice(inv, idx) == [i \in 1..(Len(inv) - 1) |-> IF i < idx THEN inv[i] ELSE inv[i + 1]]

resolveTransfer_KeepsEmptiedEntry(w, msg) ==
  IF msg.t # "transfer" THEN [ok |-> FALSE, state |-> w.state]
  ELSE IF AuthorityRejects(w, msg.from) THEN [ok |-> FALSE, state |-> w.state]
  ELSE
    LET invs == w.state.inventories
        fromInv == GetOrList(invs, msg.from)
        idx == FindIndex(fromInv, msg.item.id)
    IN IF idx = 0 THEN [ok |-> FALSE, state |-> w.state]
       ELSE IF fromInv[idx].quantity < msg.item.quantity THEN [ok |-> FALSE, state |-> w.state]
       ELSE
         LET left == fromInv[idx].quantity - msg.item.quantity
             fromInv2 == [fromInv EXCEPT ![idx].quantity = left]
             toInv == IF msg.to = msg.from THEN fromInv2
                      ELSE GetOrList(invs, msg.to)
             j == FindIndex(toInv, msg.item.id)
             toInv2 == IF j # 0 THEN [toInv EXCEPT ![j].quantity = @ + msg.item.quantity]
                       ELSE Append(toInv, msg.item)
             invs1 == MapSet(invs, msg.from, IF msg.to = msg.from THEN toInv2 ELSE fromInv2)
             invs2 == MapSet(invs1, msg.to, toInv2)
         IN [ok |-> TRUE, state |-> [w.state EXCEPT !.inventories = invs2]]

resolveTransfer(w, msg) ==
  IF msg.t # "transfer" THEN [ok |-> FALSE, state |-> w.state]
  ELSE IF AuthorityRejects(w, msg.from) THEN [ok |-> FALSE, state |-> w.state]
  ELSE
    LET invs == w.state.inventories
        fromInv == GetOrList(invs, msg.from)
        idx == FindIndex(fromInv, msg.item.id)
    IN IF idx = 0 THEN [ok |-> FALSE, state |-> w.state]
       ELSE IF fromInv[idx].quantity < msg.item.quantity THEN [ok |-> FALSE, state |-> w.state]
       ELSE
         LET left == fromInv[idx].quantity - msg.item.quantity
             fromInv2 == IF left = 0 THEN Splice(fromInv, idx)
                         ELSE [fromInv EXCEPT ![idx].quantity = left]
             \* toInv is the very array fromInv when the sender transfers to itself
             toInv == IF msg.to = msg.from THEN fromInv2
                      ELSE GetOrList(invs, msg.to)
             j == FindIndex(toInv, msg.item.id)
             toInv2 == IF j # 0 THEN [toInv EXCEPT ![j].quantity = @ + msg.item.quantity]
                       ELSE Append(toInv, msg.item)
             invs1 == MapSet(invs, msg.from, IF msg.to = msg.from THEN toInv2 ELSE fromInv2)
             invs2 == MapSet(invs1, msg.to, toInv2)
         IN [ok |-> TRUE, state |-> [w.state EXCEPT !.inventories = invs2]]

(***************************************************************************)
(* Path-based changes.  A path "a.b.c" is the sequence of its segments:    *)
(* the first names a field of the state, the second a key of that map, the *)
(* third a field of the entry.  PathThrows: the walk reaches a value that  *)
(* is neither nullish nor an object (the number tick), and the assignment  *)
(* of a property on it raises a TypeError in strict mode.                  *)
(***************************************************************************)
PathThrows(st, path) == Len(path) >= 2 /\ path[1] = "tick"

SetPath(st, path, value) ==
  IF Len(path) = 1 THEN [st EXCEPT ![path[1]] = value]
  ELSE IF Len(path) = 2 THEN [st EXCEPT ![path[1]] = MapSet(@, path[2], value)]
  ELSE LET entry == GetOr(st[path[1]], path[2], <<>>)
       IN [st EXCEPT ![path[1]] = MapSet(@, path[2], Spread(entry, [f \in {path[3]} |-> value]))]

\* change.value, undefined when the change carries none
ValueOf(change) ==
  IF Has(change, "value") THEN change.value
  ELSE IF change.path[1] = "inventories" /\ Len(change.path) = 2 THEN UndefinedList
  ELSE Undefined

\* for (const change of changes) { walk; assign }: [st, threw] after the loop,
\* stopping at the first change that raises.
RECURSIVE ApplyChanges(_, _)
ApplyChanges(st, changes) ==
  IF changes = <<>> THEN [st |-> st, threw |-> FALSE]
  ELSE IF PathThrows(st, Head(changes).path) THEN [st |-> st, threw |-> TRUE]
  ELSE ApplyChanges(SetPath(st, Head(changes).path, ValueOf(Head(changes))), Tail(changes))

TickMax(cur, incoming) == Max(cur, incoming)

\* ConflictResolver.applyDelta: iterating delta.changes raises when there is no list.
applyDelta(w, delta) ==
  IF ~Has(delta, "changes") THEN Throw(w)
  ELSE LET r == ApplyChanges(w.state, delta.changes)
       IN IF r.threw THEN Throw([w EXCEPT !.state = r.st])
          ELSE [w EXCEPT !.state = [r.st EXCEPT !.tick = TickMax(r.st.tick, delta.tick)]]

(***************************************************************************)
(* StateManager                                                            *)
(***************************************************************************)
\* setPathsValues: the same walk as applyDelta, without the tick update.
setPathsValues(w, changes) ==
  LET r == ApplyChanges(w.state, changes)
  IN IF r.threw THEN Throw([w EXCEPT !.state = r.st]) ELSE [w EXCEPT !.state = r.st]

RemoteEntries_AddMissingOnly(cur, incoming) ==
  [p \in (DOMAIN cur) \cup ((DOMAIN incoming) \ {LocalId}) |->
     IF p \in DOMAIN cur THEN cur[p] ELSE incoming[p]]

\* Entries of the incoming snapshot that the two loops copy: every pid but localId.
RemoteEntries(cur, incoming) ==
  [p \in (DOMAIN cur) \cup ((DOMAIN incoming) \ {LocalId}) |->
     IF p \in (DOMAIN incoming) \ {LocalId} THEN incoming[p] ELSE cur[p]]

\* The initial-join branch: the local entry is taken from the snapshot when it has one.
LocalEntry(cur, incoming) ==
  IF LocalId \in DOMAIN incoming THEN MapSet(cur, LocalId, incoming[LocalId]) ELSE cur

IsInitialJoin_Always(w) == LocalId # NoId

\* lastAppliedSeq.get(localId) === undefined
IsInitialJoin(w) == LocalId # NoId /\ LocalId \notin DOMAIN w.lastAppliedSeq

\* Object.entries(incoming.players) / Object.entries(incoming.inventories) raise a
\* TypeError when the field is missing; what was assigned before stays assigned.
applyFullState(w, msg) ==
  LET incoming == msg.state IN
  IF ~Has(incoming, "players") THEN Throw(w)
  ELSE
    LET w1 == [w EXCEPT !.state.players = RemoteEntries(@, incoming.players)] IN
    IF ~Has(incoming, "inventories") THEN Throw(w1)
    ELSE
      LET w2 == [w1 EXCEPT !.state.inventories = RemoteEntries(@, incoming.inventories)]
          w3 == IF IsInitialJoin(w2)
                THEN [w2 EXCEPT !.state.players = LocalEntry(@, incoming.players),
                                !.state.inventories = LocalEntry(@, incoming.inventories)]
                ELSE w2
          w4 == [w3 EXCEPT !.state.objects = incoming.objects,
                           !.state.tick = TickMax(@, incoming.tick)]
      IN emit(w4, <<"stateSync">>)

applyDeltaMessage(w, msg) ==
  LET w1 == applyDelta(w, msg.delta)
  IN IF w1.threw THEN w1 ELSE emit(w1, <<"stateDelta", msg.delta>>)

\* lastAppliedSeq.get(from) ?? -1
LastSeqOf(las, from) == IF from \in DOMAIN las THEN las[from] ELSE -1

IsStale_NothingIsStale(seq, last) == FALSE

IsStale_DuplicatesPass(seq, last) == seq < last

\* if (msg.seq <= last) return
IsStale(seq, last) == seq <= last

handleNetMessage(w, msg) ==
  IF ~isValidNetMessage(msg) THEN w
  ELSE IF Has(msg, "seq") /\ IsStale(msg.seq, LastSeqOf(w.lastAppliedSeq, msg.from)) THEN w
  ELSE
    LET w1 == IF Has(msg, "seq")
              THEN [w EXCEPT !.lastAppliedSeq = MapSet(@, msg.from, msg.seq)]
              ELSE w
    \* a resolver works on the state in place, whatever it returns
    IN CASE msg.t = "move" ->
              LET r == resolveMove(w1, msg)
                  w2 == [w1 EXCEPT !.state = r.state]
              IN IF r.ok THEN emit(w2, <<"playerMove", msg.from, msg.position>>) ELSE w2
         [] msg.t = "inventory" ->
              LET r == resolveInventory(w1, msg)
                  w2 == [w1 EXCEPT !.state = r.state]
              IN IF r.ok THEN emit(w2, <<"inventoryUpdate", msg.from, msg.items>>) ELSE w2
         [] msg.t = "transfer" ->
              LET r == resolveTransfer(w1, msg)
                  w2 == [w1 EXCEPT !.state = r.state]
              IN IF r.ok THEN emit(w2, <<"objectTransfer", msg.from, msg.to, msg.item>>) ELSE w2
         [] msg.t = "state_full" -> applyFullState(w1, msg)
         [] msg.t = "state_delta" -> applyDeltaMessage(w1, msg)
         [] msg.t = "payload" -> emit(w1, <<"sharedPayload", msg.from>>)

\* getPathValue: the value at the path, or no value (undefined) when the walk leaves the tree.
PathDefined(st, path) ==
  /\ path[1] \in DOMAIN st
  /\ Len(path) >= 2 => /\ path[1] # "tick"
                       /\ path[2] \in DOMAIN st[path[1]]
  /\ Len(path) >= 3 => path[3] \in DOMAIN st[path[1]][path[2]]

getPathValue(st, path) ==
  IF Len(path) = 1 THEN st[path[1]]
  ELSE IF Len(path) = 2 THEN st[path[1]][path[2]]
  ELSE st[path[1]][path[2]][path[3]]

ChangeOf(st, path) ==
  IF PathDefined(st, path) THEN [path |-> path, value |-> getPathValue(st, path)]
  ELSE [path |-> path]

\* buildDeltaFromPaths: the values are read first, then tick is incremented.
NextTick(t) == t + 1

buildDeltaFromPaths(w, paths) ==
  LET changes == [i \in 1..Len(paths) |-> ChangeOf(w.state, paths[i])]
      t == NextTick(w.state.tick)
  IN [w |-> [w EXCEPT !.state.tick = t], delta |-> [tick |-> t, changes |-> changes]]

(***************************************************************************)
(* Inputs.                                                                 *)
(***************************************************************************)
SeqVals == 0..MaxSeq
WithSeq(S) == S \cup {Spread(m, [seq |-> n]) : m \in S, n \in SeqVals}

Potion(q) == [id |-> "potion", type |-> "heal", quantity |-> q]
PS(id, x, y) == [id |-> id, position |-> [x |-> x, y |-> y]]
ObjKey == <<111>>
Chest == [id |-> "o", kind |-> "chest"]

Move(f, x, y) == [t |-> "move", from |-> f, ts |-> 1, position |-> [x |-> x, y |-> y]]
MoveV(f, x, y) == Spread(Move(f, x, y), [velocity |-> [x |-> 1, y |-> 0]])
Inventory(f, items) == [t |-> "inventory", from |-> f, ts |-> 1, items |-> items]
Transfer(f, d, q) == [t |-> "transfer", from |-> f, ts |-> 1, to |-> d, item |-> Potion(q)]
FullState(f, s) == [t |-> "state_full", from |-> f, ts |-> 1, state |-> s]
DeltaMsg(f, d) == [t |-> "state_delta", from |-> f, ts |-> 1, delta |-> d]
Payload(f) == [t |-> "payload", from |-> f, ts |-> 1]

SnapA ==
  [players |-> (LocalId :> PS(LocalId, 0, 0)) @@ (P1 :> PS(P1, 5, 6)),
   inventories |-> (LocalId :> <<Potion(1)>>) @@ (P1 :> <<>>),
   objects |-> <<>>, tick |-> 1]
SnapB ==
  [players |-> (P10 :> PS(P10, 7, 7)), inventories |-> <<>>,
   objects |-> (ObjKey :> Chest), tick |-> 0]
SnapNoPlayers == [inventories |-> (P1 :> <<>>), objects |-> <<>>, tick |-> 1]
SnapNoInventories == [players |-> (P1 :> PS(P1, 9, 9)), objects |-> <<>>, tick |-> 1]
Snapshots == {SnapA, SnapB}
MalformedSnapshots == {SnapNoPlayers, SnapNoInventories}

DeltaPos == [tick |-> 2, changes |-> <<[path |-> <<"players", P1, "position">>, value |-> [x |-> 5, y |-> 6]]>>]
DeltaTick == [tick |-> 0, changes |-> <<[path |-> <<"tick">>, value |-> 0]>>]
DeltaEmpty == [tick |-> 0, changes |-> <<>>]
DeltaNoChanges == [tick |-> 1]
DeltaThroughNumber ==
  [tick |-> 1, changes |-> <<[path |-> <<"objects", ObjKey>>, value |-> Chest],
                             [path |-> <<"tick", ObjKey>>, value |-> 0]>>]
Deltas == {DeltaPos, DeltaTick}
MalformedDeltas == {DeltaNoChanges, DeltaThroughNumber}

\* values the guard rejects: {}, no ts, a move without position, an unknown type
InvalidMsgs ==
  {[junk |-> TRUE], [t |-> "move", from |-> P1],
   [t |-> "move", from |-> P1, ts |-> 1, seq |-> 1], [t |-> "unknown", from |-> P1, ts |-> 1]}

\* envelopes of the sequencing specification SpecSM
MoveMsgs == WithSeq({Move(f, 1, 1) : f \in {LocalId, P1}} \cup {MoveV(f, 2, 2) : f \in {LocalId, P1}})
InventoryMsgs == WithSeq({Inventory(P1, <<Potion(2)>>)})
TransferMsgs == WithSeq({Transfer(P1, LocalId, 1)})
PayloadMsgs == WithSeq({Payload(P1)})
FullStateMsgs == WithSeq({FullState(P1, EmptyState)})
DeltaMsgs == WithSeq({DeltaMsg(P1, DeltaEmpty)})

(***************************************************************************)
(* Specification SpecSM: a StateManager in timestamp mode driven directly, *)
(* as its unit tests do: handleNetMessage is fed decoded values from any   *)
(* sender, with and without seq.                                           *)
(***************************************************************************)
\* the listener of an application that keeps the set of the peers it was told have
\* joined and not left: a peerJoin for a member of the set and a peerLeave for a
\* non-member are noted for the step
RECURSIVE Listen(_, _)
Listen(h, evs) ==
  IF evs = <<>> THEN h
  ELSE LET ev == Head(evs)
       IN Listen(CASE ev[1] = "peerJoin" ->
                        [h EXCEPT !.joined = @ \cup {ev[2]},
                                  !.doubleJoin = @ \/ ev[2] \in h.joined]
                   [] ev[1] = "peerLeave" ->
                        [h EXCEPT !.joined = @ \ {ev[2]},
                                  !.orphanLeave = @ \/ ev[2] \notin h.joined]
                   [] OTHER -> h,
                 Tail(evs))

Heard(h, evs) ==
  IF h.listening THEN Listen([h EXCEPT !.doubleJoin = FALSE, !.orphanLeave = FALSE], evs)
  ELSE h

Assign(v) ==
 \E w \in {v} :
  /\ state' = w.state
  /\ lastAppliedSeq' = w.lastAppliedSeq
  /\ mode' = w.mode
  /\ authoritativeClientId' = w.authoritativeClientId
  /\ peers' = w.peers
  /\ pendingInitiators' = w.pendingInitiators
  /\ pendingTimeouts' = w.pendingTimeouts
  /\ bufferedRemoteIce' = w.bufferedRemoteIce
  /\ hostId' = w.hostId
  /\ disposed' = w.disposed
  /\ pingIntervalId' = w.pingIntervalId
  /\ registering' = w.registering
  /\ maxPlayers' = w.maxPlayers
  /\ backpressure' = w.backpressure
  /\ infos' = w.infos
  /\ subscribed' = w.subscribed
  /\ seqCounters' = w.seqCounters
  /\ libDisposed' = w.libDisposed
  /\ cleanupOnPeerLeave' = w.cleanupOnPeerLeave
  /\ userListeners' = w.userListeners
  /\ overlayEnabled' = w.overlayEnabled
  /\ lastFrameTsByPlayer' = w.lastFrameTsByPlayer
  /\ lastMoveTsByPlayer' = w.lastMoveTsByPlayer
  /\ cfg' = w.cfg
  /\ held' = w.held
  /\ emitted' = w.emitted
  /\ peersAtEmit' = w.peersAtEmit
  /\ threw' = w.threw
  /\ sent' = w.sent
  /\ history' = Heard(history, w.emitted)
  /\ UNCHANGED <<ordVars, busVars>>

\* a step of this node: the peer's library and the frames in flight stay as they are
Commit(v) == Assign(v) /\ UNCHANGED wire

\* no PlayerId order evaluation in progress
InitNoOrd ==
  /\ ids = <<>>
  /\ cmp = [op |-> "none"]

\* a bus on which nothing was emitted to listeners of its own
InitNoBus ==
  /\ listeners = <<>>
  /\ invoked = <<>>

\* the peer "1" has sent nothing
NoWire ==
  [seqCounters |-> <<>>, selfIds |-> {}, log |-> <<>>, session |-> 1, delivered |-> 0,
   reliable |-> <<>>, unreliable |-> <<>>]

\* no application listener on peerJoin and peerLeave
NoHistory == [listening |-> FALSE]

InitNoWire ==
  /\ wire = NoWire
  /\ history = NoHistory

\* new StateManager(bus, m, ...)
InitStateManager(m) ==
  /\ state = EmptyState
  /\ lastAppliedSeq = <<>>
  /\ mode = m

\* backpressure of a PeerManager constructed without the option
ThresholdBytes == 262144
DefaultBackpressure == [strategy |-> "coalesce-moves", thresholdBytes |-> ThresholdBytes]

\* new PeerManager(bus, signaling, ...) with maxPlayers mp
InitPeerManager(mp) ==
  /\ peers = <<>>
  /\ pendingInitiators = <<>>
  /\ pendingTimeouts = <<>>
  /\ bufferedRemoteIce = <<>>
  /\ hostId = NoId
  /\ disposed = FALSE
  /\ maxPlayers = mp
  /\ backpressure = DefaultBackpressure
  /\ infos = <<>>

\* cfg.playerRadius, in world units like the positions
playerRadius == 16

\* the MovementSystem of a facade constructed without options.movement; smoothing
\* (0.2) is counted in thousandths
DefaultCfg ==
  [maxSpeed |-> 400, smoothingPerMille |-> 200, extrapolationMs |-> 120,
   worldBounds |-> [width |-> 2000, height |-> 2000], ignoreWorldBounds |-> FALSE,
   playerRadius |-> playerRadius]

\* the facade: its listeners are registered (sub) or the components stand alone
InitLibrary(sub) ==
  /\ subscribed = sub
  /\ seqCounters = <<>>
  /\ libDisposed = FALSE
  /\ cleanupOnPeerLeave = FALSE
  /\ userListeners = {}
  /\ overlayEnabled = FALSE
  /\ lastFrameTsByPlayer = <<>>
  /\ lastMoveTsByPlayer = <<>>
  /\ cfg = DefaultCfg
  /\ held = <<>>

InitObs ==
  /\ emitted = <<>>
  /\ peersAtEmit = <<>>
  /\ threw = FALSE
  /\ sent = <<>>
  /\ lastOp = [op |-> "init"]

\* a StateManager on its own bus, as the unit tests build it
InitSM ==
  /\ InitStateManager("timestamp")
  /\ authoritativeClientId = NoId
  /\ InitPeerManager(0)
  /\ pingIntervalId = FALSE
  /\ registering = 0
  /\ InitLibrary(FALSE)
  /\ InitObs
  /\ InitNoOrd
  /\ InitNoBus
  /\ InitNoWire

HandleNetMessage(msg) ==
  /\ Commit(handleNetMessage(W, msg))
  /\ lastOp' = [op |-> "handleNetMessage", msg |-> msg]

\* the exploration stops feeding transfers to a receiver that holds MaxQty of the item
QtyOf(inv, id) == IF FindIndex(inv, id) = 0 THEN 0 ELSE inv[FindIndex(inv, id)].quantity
BelowMaxQty(m) == QtyOf(GetOrList(state.inventories, m.to), m.item.id) < MaxQty

HandleMove == \E m \in MoveMsgs : HandleNetMessage(m)
HandleInventory == \E m \in InventoryMsgs : HandleNetMessage(m)
HandleTransfer == \E m \in TransferMsgs : BelowMaxQty(m) /\ HandleNetMessage(m)
HandleFullState == \E m \in FullStateMsgs : HandleNetMessage(m)
HandleDelta == \E m \in DeltaMsgs : HandleNetMessage(m)
HandlePayload == \E m \in PayloadMsgs : HandleNetMessage(m)
HandleInvalid == \E m \in InvalidMsgs : HandleNetMessage(m)

NextSM ==
  \/ HandleMove
  \/ HandleInventory
  \/ HandleTransfer
  \/ HandleFullState
  \/ HandleDelta
  \/ HandlePayload
  \/ HandleInvalid

SpecSM == InitSM /\ [][NextSM]_vars

(***************************************************************************)
(* Claims about per-sender sequencing.                                     *)
(***************************************************************************)
\* C1: per sender, lastAppliedSeq never decreases; an envelope carrying seq that has
\* any effect (a state change or an event) leaves lastAppliedSeq[from] strictly
\* greater than before, equal to its seq; an envelope whose seq is <= the recorded
\* value is dropped: no change to the state or to lastAppliedSeq, and no event.
C1_SeqMonotonic ==
  [][ /\ \A p \in DOMAIN lastAppliedSeq :
            p \in DOMAIN lastAppliedSeq' /\ lastAppliedSeq'[p] >= lastAppliedSeq[p]
      /\ (lastOp'.op = "handleNetMessage" /\ isValidNetMessage(lastOp'.msg) /\ Has(lastOp'.msg, "seq")) =>
           LET m == lastOp'.msg
               last == LastSeqOf(lastAppliedSeq, m.from)
           IN /\ (state' # state \/ Len(emitted') > 0) =>
                    /\ LastSeqOf(lastAppliedSeq', m.from) > last
                    /\ LastSeqOf(lastAppliedSeq', m.from) = m.seq
              /\ m.seq > last => LastSeqOf(lastAppliedSeq', m.from) = m.seq
              /\ m.seq <= last =>
                    /\ state' = state
                    /\ lastAppliedSeq' = lastAppliedSeq
                    /\ emitted' = <<>>
    ]_vars

\* a stale envelope (seq below the recorded one) has just been dropped
C1_Witness ==
  /\ lastOp.op = "handleNetMessage"
  /\ isValidNetMessage(lastOp.msg)
  /\ Has(lastOp.msg, "seq")
  /\ lastOp.msg.seq < LastSeqOf(lastAppliedSeq, lastOp.msg.from)
  /\ emitted = <<>>

(***************************************************************************)
(* Specification SpecAuth: the same StateManager in authoritative mode,    *)
(* with the authority provider returning undefined, the local id or a      *)
(* remote id.                                                              *)
(***************************************************************************)
InitAuth ==
  /\ InitStateManager("authoritative")
  /\ authoritativeClientId \in {NoId, LocalId, P1}
  /\ InitPeerManager(0)
  /\ pingIntervalId = FALSE
  /\ registering = 0
  /\ InitLibrary(FALSE)
  /\ InitObs
  /\ InitNoOrd
  /\ InitNoBus
  /\ InitNoWire

SpecAuth == InitAuth /\ [][NextSM]_vars

IsGated(m) == isValidNetMessage(m) /\ m.t \in {"move", "inventory", "transfer"}

\* C10: in authoritative mode a move, inventory or transfer envelope whose from is
\* not the id the authority provider returns at that moment (an id, or undefined
\* when none is set yet) is rejected: the state is unchanged and no event is emitted.
C10_AuthorityGate ==
  [][ (/\ mode = "authoritative"
       /\ lastOp'.op = "handleNetMessage"
       /\ IsGated(lastOp'.msg)
       /\ lastOp'.msg.from # authoritativeClientId)
      => (state' = state /\ emitted' = <<>>) ]_vars

(***************************************************************************)
(* Specification SpecSync: snapshots and deltas.  A StateManager in        *)
(* timestamp mode receives moves (with and without seq, from the local id  *)
(* and from a remote id), state_full and state_delta envelopes, well       *)
(* formed and malformed, and its methods setPathsValues and                *)
(* buildDeltaFromPaths are called locally.                                 *)
(***************************************************************************)
SyncMoveMsgs == WithSeq({Move(LocalId, 1, 1), Move(P1, 2, 2)})
SyncInventoryMsgs == {Inventory(LocalId, <<Potion(2)>>)}
SyncFullStateMsgs ==
  WithSeq({FullState(P1, s) : s \in Snapshots})
  \cup {FullState(P1, s) : s \in MalformedSnapshots}
  \cup {Spread(FullState(LocalId, SnapA), [seq |-> 1])}
SyncDeltaMsgs == {DeltaMsg(P1, d) : d \in Deltas \cup MalformedDeltas}

LocalChanges == {<<[path |-> <<"objects", ObjKey>>, value |-> Chest]>>}
LocalPaths == {<<<<"objects", ObjKey>>>>, <<<<"players", P10>>, <<"inventories", P10>>>>}

SyncMove == \E m \in SyncMoveMsgs : HandleNetMessage(m)
SyncInventory == \E m \in SyncInventoryMsgs : HandleNetMessage(m)
SyncFullState == \E m \in SyncFullStateMsgs : HandleNetMessage(m)
SyncDelta == \E m \in SyncDeltaMsgs : HandleNetMessage(m)

SetPathsValues ==
  \E c \in LocalChanges :
    /\ Commit(setPathsValues(W, c))
    /\ lastOp' = [op |-> "setPathsValues", changes |-> c]

BuildDeltaFromPaths ==
  \E ps \in LocalPaths :
    /\ state.tick < MaxTick
    /\ Commit(buildDeltaFromPaths(W, ps).w)
    /\ lastOp' = [op |-> "buildDeltaFromPaths", paths |-> ps]

NextSync ==
  \/ SyncMove
  \/ SyncInventory
  \/ SyncFullState
  \/ SyncDelta
  \/ SetPathsValues
  \/ BuildDeltaFromPaths

SpecSync == InitSM /\ [][NextSync]_vars

\* the last operation applied a state_full envelope to the end (stateSync was emitted)
AppliedFullState(op, ev) ==
  /\ op.op = "handleNetMessage"
  /\ isValidNetMessage(op.msg)
  /\ op.msg.t = "state_full"
  /\ ev = <<<<"stateSync">>>>

\* the entry of map m under key k is the same in m2 (absent in both, or equal)
SameEntry(m, m2, k) == (k \in DOMAIN m <=> k \in DOMAIN m2) /\ (k \in DOMAIN m => m[k] = m2[k])

\* C6: applyFullState overwrites players[localId] and inventories[localId] with the
\* snapshot's entries if and only if lastAppliedSeq has no entry for localId at that
\* moment; when an entry exists the local player's entries are left unchanged.
C6_LocalOverwriteIffNoSeq ==
  [][ AppliedFullState(lastOp', emitted') =>
        LET snap == lastOp'.msg.state
            hasEntry == LocalId \in DOMAIN lastAppliedSeq'
        IN /\ hasEntry =>
                /\ SameEntry(state.players, state'.players, LocalId)
                /\ SameEntry(state.inventories, state'.inventories, LocalId)
           /\ (~hasEntry /\ LocalId \in DOMAIN snap.players) =>
                state'.players[LocalId] = snap.players[LocalId]
           /\ (~hasEntry /\ LocalId \in DOMAIN snap.inventories) =>
                state'.inventories[LocalId] = snap.inventories[LocalId]
    ]_vars

\* a snapshot holding another value for the local player was applied while
\* lastAppliedSeq had an entry for localId, and the local value was kept
C6_Witness ==
  /\ AppliedFullState(lastOp, emitted)
  /\ LocalId \in DOMAIN lastAppliedSeq
  /\ LocalId \in DOMAIN lastOp.msg.state.players
  /\ LocalId \in DOMAIN state.players
  /\ state.players[LocalId] # lastOp.msg.state.players[LocalId]

C8_TickMonotonic == [][state'.tick >= state.tick]_vars

\* C9: handleNetMessage returns without raising whatever the decoded value is, and an
\* envelope that cannot be applied leaves the state unchanged and emits nothing.
C9_NeverRaises == lastOp.op = "handleNetMessage" => ~threw

(***************************************************************************)
(* The order on PlayerIds (PeerManager.comparePlayerIds) and the fold of   *)
(* PeerManager.electHost.                                                  *)
(***************************************************************************)
\* /^\d+$/.test(s)
digitOnly(s) == Len(s) >= 1 /\ \A i \in 1..Len(s) : s[i] >= 48 /\ s[i] <= 57

\* BigInt(s) for a digit-only s
RECURSIVE BigInt(_)
BigInt(s) == IF Len(s) = 0 THEN 0 ELSE BigInt(SubSeq(s, 1, Len(s) - 1)) * 10 + (s[Len(s)] - 48)

MinLen(a, b) == IF Len(a) <= Len(b) THEN Len(a) ELSE Len(b)

\* a < b on JavaScript strings: by code unit, a proper prefix first
StringLess(a, b) ==
  \/ \E i \in 1..MinLen(a, b) : a[i] < b[i] /\ \A j \in 1..(i - 1) : a[j] = b[j]
  \/ Len(a) < Len(b) /\ \A j \in 1..Len(a) : a[j] = b[j]

\* a < b ? -1 : a > b ? 1 : 0
StringCompare(a, b) == IF StringLess(a, b) THEN -1 ELSE IF StringLess(b, a) THEN 1 ELSE 0

comparePlayerIds(a, b) ==
  IF digitOnly(a) /\ digitOnly(b)
  THEN IF BigInt(a) # BigInt(b)
       THEN (IF BigInt(a) < BigInt(b) THEN -1 ELSE 1)
       ELSE StringCompare(a, b)
  ELSE StringCompare(a, b)

\* all.reduce((min, id) => comparePlayerIds(id, min) < 0 ? id : min)
RECURSIVE ReduceMin(_)
ReduceMin(all) ==
  IF Len(all) = 1 THEN all[1]
  ELSE LET min == ReduceMin(SubSeq(all, 1, Len(all) - 1))
           id == all[Len(all)]
       IN IF comparePlayerIds(id, min) < 0 THEN id ELSE min

(***************************************************************************)
(* Specification SpecOrd: the order evaluated on every triple of ids made  *)
(* of the characters "0", "1", "9", "A", of length 1..MaxIdLen.            *)
(***************************************************************************)
IdChars == {48, 49, 57, 65}
IdStrings == UNION {[1..n -> IdChars] : n \in 1..MaxIdLen}

InitOrd ==
  /\ InitStateManager("timestamp")
  /\ authoritativeClientId = NoId
  /\ InitPeerManager(0)
  /\ pingIntervalId = FALSE
  /\ registering = 0
  /\ InitLibrary(FALSE)
  /\ InitObs
  /\ ids \in [1..3 -> IdStrings]
  /\ cmp = [op |-> "none"]
  /\ InitNoBus
  /\ InitNoWire

\* comparePlayerIds on the pairs of the triple
ComparePlayerIds ==
  /\ cmp' = [op |-> "comparePlayerIds",
             ab |-> comparePlayerIds(ids[1], ids[2]),
             ba |-> comparePlayerIds(ids[2], ids[1]),
             bc |-> comparePlayerIds(ids[2], ids[3]),
             ac |-> comparePlayerIds(ids[1], ids[3])]
  /\ lastOp' = [op |-> "comparePlayerIds"]
  /\ UNCHANGED <<smVars, pmVars, libVars, busVars, envVars, emitted, peersAtEmit, threw, sent, ids>>

\* the fold of electHost for local id ids[1] and the two other ids as peers,
\* inserted in one order and in the other
ElectHost ==
  /\ Cardinality({ids[1], ids[2], ids[3]}) = 3
  /\ cmp' = [op |-> "electHost",
             first |-> ReduceMin(<<ids[1], ids[2], ids[3]>>),
             second |-> ReduceMin(<<ids[1], ids[3], ids[2]>>)]
  /\ lastOp' = [op |-> "electHost"]
  /\ UNCHANGED <<smVars, pmVars, libVars, busVars, envVars, emitted, peersAtEmit, threw, sent, ids>>

NextOrd ==
  \/ ComparePlayerIds
  \/ ElectHost

SpecOrd == InitOrd /\ [][NextOrd]_vars

\* C4: comparePlayerIds is a strict total order (for distinct a, b exactly one of
\* a<b, b<a; a<b and b<c imply a<c), also over ids that mix digit-only and other
\* ids, so the elected host does not depend on the order the peers were added in.
C4_StrictTotalOrder ==
  /\ cmp.op = "comparePlayerIds" =>
       /\ ids[1] # ids[2] => ((cmp.ab < 0) # (cmp.ba < 0))
       /\ (cmp.ab < 0 /\ cmp.bc < 0) => cmp.ac < 0
  /\ cmp.op = "electHost" => cmp.first = cmp.second

(***************************************************************************)
(* PeerManager.  peers and pendingInitiators are JavaScript Maps: they are *)
(* sequences of [id, rtc] in insertion order, rtc being the reference of   *)
(* the PeerInfo in infos (0 stands for undefined).  A PeerInfo is modelled *)
(* together with its RTCPeerConnection: connectionState, signalingState    *)
(* and remoteDescription are the fields of info.rtc; pc is the position of *)
(* the async function that awaits an operation of this connection.  infos  *)
(* holds the PeerInfos that are still referenced by the PeerManager or can *)
(* still get an event or resume a handler; the others are garbage.         *)
(***************************************************************************)
\* a reference for a new object: the first one that is not in use
NewRef(w) == CHOOSE h \in 1..(Cardinality(DOMAIN w.infos) + 1) :
               h \notin DOMAIN w.infos /\ \A k \in 1..(h - 1) : k \in DOMAIN w.infos
Keys(m) == [i \in 1..Len(m) |-> m[i].id]
HasKey(m, id) == \E i \in 1..Len(m) : m[i].id = id
Get(m, id) == IF HasKey(m, id) THEN m[CHOOSE i \in 1..Len(m) : m[i].id = id].rtc ELSE 0
\* Map.set keeps the position of an existing key
MapPut(m, id, h) ==
  IF HasKey(m, id)
  THEN [i \in 1..Len(m) |-> IF m[i].id = id THEN [id |-> id, rtc |-> h] ELSE m[i]]
  ELSE Append(m, [id |-> id, rtc |-> h])
IsNot(e, id) == e.id # id
MapDelete(m, id) == SelectSeq(m, LAMBDA e : IsNot(e, id))
FnDelete(f, k) == [x \in (DOMAIN f) \ {k} |-> f[x]]

getPeerIds(w) == Keys(w.peers)

\* new RTCPeerConnection(...) wrapped in { id, rtc, pingMs: 0 }
NewInfo(id) ==
  [id |-> id, connectionState |-> "new", signalingState |-> "stable",
   remoteDescription |-> FALSE, pingMs |-> 0, iceAdded |-> 0, iceEarly |-> 0, pc |-> "idle"]

\* rtc.createDataChannel(...)
NewChannel == [readyState |-> "connecting", bufferedAmount |-> 0, opened |-> FALSE]

CloseChannel(info, field) ==
  IF Has(info, field) THEN [info EXCEPT ![field].readyState = "closed"] ELSE info

\* info.rtc.close(): no event is fired on the closed connection, and the operation
\* a handler awaits on it is rejected, which ends that handler
CloseRtc(w, h) ==
  [w EXCEPT !.infos[h] =
     CloseChannel(CloseChannel([@ EXCEPT !.connectionState = "closed", !.signalingState = "closed",
                                         !.pc = "idle"],
                               "dcUnreliable"), "dcReliable")]

Referenced(w, h) ==
  \/ \E i \in 1..Len(w.peers) : w.peers[i].rtc = h
  \/ \E i \in 1..Len(w.pendingInitiators) : w.pendingInitiators[i].rtc = h

\* a connection that is closed or failed gets no further event
Garbage(w, h) ==
  /\ w.infos[h].connectionState \in {"closed", "failed"}
  /\ w.infos[h].pc = "idle"
  /\ ~Referenced(w, h)

Sweep(w) == [w EXCEPT !.infos = [h \in {k \in DOMAIN w.infos : ~Garbage(w, k)} |-> w.infos[h]]]

\* References are identities without meaning: the live PeerInfos are renumbered 1..n
\* in the order of their contents.
ConnectionRank(c) ==
  CASE c = "new" -> 1 [] c = "connecting" -> 2 [] c = "connected" -> 3
    [] c = "disconnected" -> 4 [] c = "failed" -> 5 [] OTHER -> 6
PcRank(c) ==
  CASE c = "idle" -> 1 [] c = "createOffer" -> 2 [] c = "setRemoteAnswer" -> 3
    [] c = "setRemoteOffer" -> 4 [] OTHER -> 5
SignalingRank(c) ==
  CASE c = "stable" -> 1 [] c = "have-local-offer" -> 2 [] c = "have-remote-offer" -> 3
    [] OTHER -> 4
ContentKey(info) ==
  (((Len(info.id) * 8 + ConnectionRank(info.connectionState)) * 8 + PcRank(info.pc)) * 4
   + SignalingRank(info.signalingState)) * 2
  + (IF Has(info, "dcUnreliable") THEN 1 ELSE 0)
\* order is the set of <<reference, new reference>>
RefIn(order, h) == (CHOOSE p \in order : p[1] = h)[2]
RefFrom(order, n) == (CHOOSE p \in order : p[2] = n)[1]
Rebind(m, order) == [i \in 1..Len(m) |-> [id |-> m[i].id, rtc |-> RefIn(order, m[i].rtc)]]
Renumber(w, order) ==
  [w EXCEPT !.infos = [n \in 1..Cardinality(order) |-> @[RefFrom(order, n)]],
            !.peers = Rebind(@, order),
            !.pendingInitiators = Rebind(@, order),
            !.pendingTimeouts = [k \in DOMAIN @ |-> RefIn(order, @[k])]]


(***************************************************************************)
(* Outbound path of PeerManager: serialisation, channel choice, sending or *)
(* queueing.  A payload is [kind, shape, value] like an inbound frame.     *)
(***************************************************************************)
serializationStrategy == "json"

\* JSON.stringify leaves out the properties whose value is undefined
DropUndefined(msg) ==
  [k \in {f \in DOMAIN msg : ~(f \in {"velocity", "channel"} /\ msg[f] = Undefined)} |-> msg[k]]

\* serializer.encode
encode(msg) ==
  [kind |-> IF serializationStrategy = "binary-min" THEN "binary" ELSE "string",
   shape |-> "object", value |-> DropUndefined(msg)]

Send(w, to, via, payload) == [w EXCEPT !.sent = Append(@, [to |-> to, via |-> via, payload |-> payload])]

UNRELIABLE_TYPES == {"move", "ping", "pong"}

pickChannel_TypeOnly(msg, options) ==
  IF msg.t \in UNRELIABLE_TYPES THEN "unreliable" ELSE "reliable"

pickChannel(msg, options) ==
  IF Has(options, "unreliable") /\ options.unreliable THEN "unreliable"
  ELSE IF msg.t \in UNRELIABLE_TYPES THEN "unreliable" ELSE "reliable"

DcField(kind) == IF kind = "unreliable" THEN "dcUnreliable" ELSE "dcReliable"
OutboxField(kind) == IF kind = "unreliable" THEN "outboxUnreliable" ELSE "outboxReliable"

CanSend_BackpressureOnBothKinds(w, h, kind) ==
  /\ Has(w.infos[h], DcField(kind))
  /\ w.infos[h][DcField(kind)].readyState = "open"
  /\ ~(/\ w.backpressure.strategy # "off"
       /\ w.infos[h][DcField(kind)].bufferedAmount > w.backpressure.thresholdBytes)

\* trySend returns true (and has sent) exactly when CanSend
CanSend(w, h, kind) ==
  /\ Has(w.infos[h], DcField(kind))
  /\ w.infos[h][DcField(kind)].readyState = "open"
  /\ ~(/\ kind = "unreliable"
       /\ w.backpressure.strategy # "off"
       /\ w.infos[h][DcField(kind)].bufferedAmount > w.backpressure.thresholdBytes)

\* index of the last queued move, 0 if none
LastMove(box) ==
  LET ms == {i \in 1..Len(box) : box[i].shape = "object" /\ Has(box[i].value, "t") /\ box[i].value.t = "move"}
  IN IF ms = {} THEN 0 ELSE CHOOSE i \in ms : \A j \in ms : j <= i

pushOutbox_NeverCoalesces(w, info, payload, message, kind) ==
  LET buffered == IF Has(info, "dcUnreliable") THEN info.dcUnreliable.bufferedAmount ELSE 0
  IN IF w.backpressure.strategy = "drop-moves" /\ message.t = "move"
        /\ buffered > w.backpressure.thresholdBytes
     THEN info
     ELSE [info EXCEPT ![OutboxField(kind)] = Append(@, payload)]

pushOutbox(w, info, payload, message, kind) ==
  LET box == info[OutboxField(kind)]
      buffered == IF Has(info, "dcUnreliable") THEN info.dcUnreliable.bufferedAmount ELSE 0
  IN IF w.backpressure.strategy = "coalesce-moves" /\ message.t = "move" /\ LastMove(box) # 0
     THEN [info EXCEPT ![OutboxField(kind)][LastMove(box)] = payload]
     ELSE IF w.backpressure.strategy = "drop-moves" /\ message.t = "move"
             /\ buffered > w.backpressure.thresholdBytes
     THEN info
     ELSE [info EXCEPT ![OutboxField(kind)] = Append(@, payload)]

\* one peer of broadcast, or the peer of send
SendOrQueue(w, h, payload, message, kind) ==
  IF CanSend(w, h, kind) THEN Send(w, w.infos[h].id, kind, payload)
  ELSE LET info == IF Has(w.infos[h], OutboxField(kind)) THEN w.infos[h]
                   ELSE Spread(w.infos[h], [k \in {OutboxField(kind)} |-> <<>>])
       IN [w EXCEPT !.infos[h] = pushOutbox(w, info, payload, message, kind)]

RECURSIVE BroadcastLoop(_, _, _, _, _)
BroadcastLoop(w, entries, payload, message, kind) ==
  IF entries = <<>> THEN w
  ELSE BroadcastLoop(SendOrQueue(w, Head(entries).rtc, payload, message, kind),
                     Tail(entries), payload, message, kind)

broadcast(w, message, options) ==
  BroadcastLoop(w, w.peers, encode(message), message, pickChannel(message, options))

\* the outbox of the given kind of a PeerInfo ([] when it was never created)
OutboxOf(info, kind) == IF Has(info, OutboxField(kind)) THEN info[OutboxField(kind)] ELSE <<>>

\* setupDataChannel: the channel becomes the PeerInfo's channel of that kind
setupDataChannel(w, h, kind, dc) ==
  [w EXCEPT !.infos[h] = Spread(@, [k \in {DcField(kind)} |-> dc])]

RECURSIVE SendAll(_, _, _, _)
SendAll(w, to, kind, box) ==
  IF box = <<>> THEN w ELSE SendAll(Send(w, to, kind, Head(box)), to, kind, Tail(box))

onopen_ClearsBothOutboxes(w, h, kind) ==
  LET info == w.infos[h]
  IN IF Has(info, OutboxField(kind)) /\ Len(info[OutboxField(kind)]) > 0
     THEN [SendAll(w, info.id, kind, info[OutboxField(kind)])
             EXCEPT !.infos[h] = Spread(@, [outboxUnreliable |-> <<>>, outboxReliable |-> <<>>])]
     ELSE w

\* dc.onopen: the queued payloads of that kind are sent in order, then the outbox is reset
onopen(w, h, kind) ==
  LET info == w.infos[h]
  IN IF Has(info, OutboxField(kind)) /\ Len(info[OutboxField(kind)]) > 0
     THEN [SendAll(w, info.id, kind, info[OutboxField(kind)])
             EXCEPT !.infos[h][OutboxField(kind)] = <<>>]
     ELSE w

\* send: nothing happens when the target is not in peers
send(w, to, message, options) ==
  IF ~HasKey(w.peers, to) THEN w
  ELSE SendOrQueue(w, Get(w.peers, to), encode(message), message, pickChannel(message, options))

(***************************************************************************)
(* The listeners that P2PGameLibrary registers on the bus.                 *)
(***************************************************************************)
\* nextSeq returns the value it stores
nextSeq(w, sender) ==
  LET v == (IF sender \in DOMAIN w.seqCounters THEN w.seqCounters[sender] ELSE 0) + 1
  IN [w EXCEPT !.seqCounters = MapSet(@, sender, v)]

broadcastFullState(w, selfId, now) ==
  IF w.libDisposed THEN Throw(w)
  ELSE LET w1 == nextSeq(w, selfId)
       IN broadcast(w1, [t |-> "state_full", from |-> selfId, ts |-> now,
                         seq |-> w1.seqCounters[selfId], state |-> w1.state], <<>>)


\* bus.on("hostChange", ...): adopt the host as authority when none is set, and
\* push a full state when the local node is the host
onHostChange(w, newHost) ==
  LET w1 == IF w.mode = "authoritative" /\ w.authoritativeClientId = NoId
            THEN [w EXCEPT !.authoritativeClientId = newHost]
            ELSE w
  IN IF newHost = LocalId THEN broadcastFullState(w1, LocalId, ListenerNow) ELSE w1

broadcastDelta(w, selfId, paths, now) ==
  IF w.libDisposed THEN Throw(w)
  ELSE LET b == buildDeltaFromPaths(w, paths)
           w1 == nextSeq(b.w, selfId)
       IN broadcast(w1, [t |-> "state_delta", from |-> selfId, ts |-> now,
                         seq |-> w1.seqCounters[selfId], delta |-> b.delta], <<>>)

\* bus.on("peerLeave", ...): the host deletes the entries of the peer that left and
\* broadcasts a delta for their two paths
onPeerLeave(w, peerId) ==
  IF w.hostId # NoId /\ w.hostId = LocalId /\ w.cleanupOnPeerLeave
  THEN broadcastDelta([w EXCEPT !.state.players = FnDelete(@, peerId),
                                !.state.inventories = FnDelete(@, peerId)],
                      LocalId, <<<<"players", peerId>>, <<"inventories", peerId>>>>, ListenerNow)
  ELSE w

\* EventBus.emit with the listeners of P2PGameLibrary when they are registered:
\* netMessage goes to StateManager.handleNetMessage, hostChange and peerLeave to the
\* listeners above
Dispatch(w, ev) ==
  IF ~w.subscribed THEN emit(w, ev)
  ELSE IF ev[1] = "netMessage" THEN handleNetMessage(emit(w, ev), ev[2])
  ELSE IF ev[1] = "hostChange" THEN onHostChange(emit(w, ev), ev[2])
  ELSE IF ev[1] = "peerLeave" THEN onPeerLeave(emit(w, ev), ev[2])
  ELSE emit(w, ev)

electHost(w) ==
  LET newHost == ReduceMin(<<LocalId>> \o getPeerIds(w))
  IN IF newHost # w.hostId
     THEN Dispatch([w EXCEPT !.hostId = newHost], <<"hostChange", newHost>>)
     ELSE w

\* info.rtc.addIceCandidate for n candidates: iceEarly counts those that the connection
\* is given while it has no remote description
addIceCandidate(info, n) ==
  [info EXCEPT !.iceAdded = @ + n,
               !.iceEarly = IF info.remoteDescription THEN @ ELSE @ + n]

flushBufferedIce(w, peerId, h) ==
  IF peerId \notin DOMAIN w.bufferedRemoteIce THEN w
  ELSE [w EXCEPT !.infos[h] = addIceCandidate(@, w.bufferedRemoteIce[peerId]),
                 !.bufferedRemoteIce = FnDelete(@, peerId)]

\* list.push(candidate) on the list of the peer
BufferIce(w, from) ==
  [w EXCEPT !.bufferedRemoteIce =
     MapSet(@, from, (IF from \in DOMAIN @ THEN @[from] ELSE 0) + 1)]

\* signaling.onIceCandidate callback
onIceCandidate(w, from) ==
  IF w.disposed \/ from = LocalId THEN w
  ELSE LET h == Get(w.peers, from)
       IN IF h # 0
          THEN IF ~w.infos[h].remoteDescription THEN BufferIce(w, from)
               ELSE [w EXCEPT !.infos[h] = addIceCandidate(@, 1)]
          ELSE BufferIce(w, from)

getMaxRemotePeers(w) == Max(0, w.maxPlayers - 1)
getInUseRemoteSlots(w) == Len(w.peers) + Len(w.pendingInitiators)
AtCapacity_OffByOne(w) == w.maxPlayers # 0 /\ getInUseRemoteSlots(w) > getMaxRemotePeers(w)

\* getInUseRemoteSlots() >= getMaxRemotePeers(), the latter infinite when maxPlayers is not set
AtCapacity(w) == w.maxPlayers # 0 /\ getInUseRemoteSlots(w) >= getMaxRemotePeers(w)

\* the part of createOfferTo that runs before its first await
createOfferTo(w, targetId) ==
  IF w.disposed \/ HasKey(w.pendingInitiators, targetId) \/ HasKey(w.peers, targetId) THEN w
  ELSE LET h == NewRef(w)
           info == Spread(NewInfo(targetId),
                          [dcUnreliable |-> NewChannel, dcReliable |-> NewChannel,
                           pc |-> "createOffer"])
       IN [w EXCEPT !.infos = MapSet(@, h, info),
                    !.pendingInitiators = MapPut(@, targetId, h),
                    !.pendingTimeouts = MapSet(@, targetId, h)]

onPendingOfferTimeout_OnlyCloses(w, targetId, h) ==
  IF w.disposed THEN w
  ELSE IF Get(w.pendingInitiators, targetId) = h THEN CloseRtc(w, h)
  ELSE w

\* the callback of the pending-offer timer that createOfferTo armed for the PeerInfo h
onPendingOfferTimeout(w, targetId, h) ==
  IF w.disposed THEN w
  ELSE IF Get(w.pendingInitiators, targetId) = h
  THEN CloseRtc([w EXCEPT !.pendingTimeouts = FnDelete(@, targetId),
                          !.pendingInitiators = MapDelete(@, targetId)], h)
  ELSE w

\* onRoster, first loop: remove the peers that are no longer in the roster
RECURSIVE EvictPeers(_, _, _)
EvictPeers(w, entries, rosterSet) ==
  IF entries = <<>> THEN w
  ELSE LET e == Head(entries)
           w1 == IF e.id \in rosterSet THEN w
                 ELSE Dispatch([CloseRtc(w, e.rtc) EXCEPT !.peers = MapDelete(@, e.id)],
                               <<"peerLeave", e.id>>)
       IN EvictPeers(w1, Tail(entries), rosterSet)

\* onRoster, second loop: drop the pending initiators that are no longer in the roster
RECURSIVE CleanPending(_, _, _)
CleanPending(w, entries, rosterSet) ==
  IF entries = <<>> THEN w
  ELSE LET e == Head(entries)
           w1 == IF e.id \in rosterSet THEN w
                 ELSE [CloseRtc(w, e.rtc) EXCEPT !.pendingTimeouts = FnDelete(@, e.id),
                                                 !.pendingInitiators = MapDelete(@, e.id)]
       IN CleanPending(w1, Tail(entries), rosterSet)

IsActive(w, pid) ==
  HasKey(w.peers, pid) /\ w.infos[Get(w.peers, pid)].connectionState = "connected"

\* onRoster, third loop: initiate towards the roster members that are missing or inactive
RECURSIVE Initiate(_, _)
Initiate(w, roster) ==
  IF roster = <<>> THEN w
  ELSE LET pid == Head(roster)
           w1 == IF pid = LocalId \/ IsActive(w, pid) THEN w
                 ELSE IF AtCapacity(w) THEN Dispatch(w, <<"maxCapacityReached", w.maxPlayers>>)
                 ELSE IF comparePlayerIds(LocalId, pid) < 0 THEN createOfferTo(w, pid)
                 ELSE w
       IN Initiate(w1, Tail(roster))

Range(seq) == {seq[i] : i \in 1..Len(seq)}

onRoster(w, roster) ==
  IF w.disposed THEN w
  ELSE LET w1 == EvictPeers(w, w.peers, Range(roster))
           w2 == CleanPending(w1, w1.pendingInitiators, Range(roster))
       IN Initiate(w2, roster)

\* await info.rtc.setRemoteDescription(desc): the handler is suspended on the connection
Await(w, h, label) == [w EXCEPT !.infos[h].pc = label]

\* onRemoteDescription for desc.type = "answer", up to its await
onAnswer(w, from) ==
  IF w.disposed \/ from = LocalId THEN w
  ELSE LET known == Get(w.peers, from)
           pending == Get(w.pendingInitiators, from)
           adopt == known = 0 /\ pending # 0
           w1 == IF adopt
                 THEN electHost(flushBufferedIce(
                        [w EXCEPT !.pendingTimeouts = FnDelete(@, from),
                                  !.pendingInitiators = MapDelete(@, from),
                                  !.peers = MapPut(@, from, pending)], from, pending))
                 ELSE w
           h == IF adopt THEN pending ELSE known
       IN IF h = 0 THEN w1
          ELSE IF w1.infos[h].signalingState # "have-local-offer" THEN w1
          ELSE Await(w1, h, "setRemoteAnswer")

\* onRemoteDescription for desc.type = "offer", up to its await of setRemoteDescription
onOffer(w, from) ==
  IF w.disposed \/ from = LocalId THEN w
  ELSE IF AtCapacity(w) THEN Dispatch(w, <<"maxCapacityReached", w.maxPlayers>>)
  ELSE LET known == Get(w.peers, from)
       IN IF known # 0 /\ w.infos[known].connectionState \in {"connected", "connecting"} THEN w
          ELSE LET h == IF known # 0 THEN known ELSE NewRef(w)
                   w1 == IF known # 0 THEN w
                         ELSE electHost(flushBufferedIce(
                                [w EXCEPT !.infos = MapSet(@, h, NewInfo(from))], from, h))
               IN IF w1.infos[h].signalingState # "stable" THEN w1
                  ELSE Await(w1, h, "setRemoteOffer")

Promote_JoinBeforeElection(w, id, h) ==
  electHost(Dispatch([w EXCEPT !.peers = MapPut(@, id, h)], <<"peerJoin", id>>))

\* the connected branch: peers.set, then electHost, then emit peerJoin
Promote(w, id, h) ==
  Dispatch(electHost([w EXCEPT !.peers = MapPut(@, id, h)]), <<"peerJoin", id>>)

\* rtc.onconnectionstatechange after the connection h went to state s
onconnectionstatechange(w, h) ==
  LET info == w.infos[h]
      s == info.connectionState
  IN IF w.disposed THEN w
     ELSE IF s = "connected"
     THEN IF info.id # LocalId THEN Promote(w, info.id, h) ELSE w
     ELSE IF s \in {"disconnected", "failed", "closed"}
     THEN LET wasPending == Get(w.pendingInitiators, info.id) = h
              w1 == IF wasPending
                    THEN [w EXCEPT !.pendingTimeouts = FnDelete(@, info.id),
                                   !.pendingInitiators = MapDelete(@, info.id)]
                    ELSE w
              existed == HasKey(w1.peers, info.id)
              w2 == [w1 EXCEPT !.peers = MapDelete(@, info.id)]
              w3 == IF existed THEN Dispatch(w2, <<"peerLeave", info.id>>) ELSE w2
          IN IF w3.hostId = info.id THEN electHost([w3 EXCEPT !.hostId = NoId]) ELSE w3
     ELSE w

RECURSIVE CloseAll(_, _)
CloseAll(w, entries) ==
  IF entries = <<>> THEN w ELSE CloseAll(CloseRtc(w, Head(entries).rtc), Tail(entries))

dispose(w) ==
  IF w.disposed THEN w
  ELSE LET w1 == CloseAll([w EXCEPT !.disposed = TRUE, !.pingIntervalId = FALSE,
                                    !.pendingTimeouts = <<>>], w.peers)
           w2 == CloseAll([w1 EXCEPT !.peers = <<>>], w1.pendingInitiators)
       IN [w2 EXCEPT !.pendingInitiators = <<>>, !.bufferedRemoteIce = <<>>, !.hostId = NoId]

(***************************************************************************)
(* Frames.  A frame, inbound or outbound, is [kind, shape, value]: kind is *)
(* "string" or "binary"; shape says what JSON.parse makes of its text:     *)
(* "invalid" (it throws), "null", "number", or "object" with the parsed    *)
(* object in value.                                                        *)
(***************************************************************************)
IsPing(m) == Has(m, "t") /\ m.t = "ping" /\ Has(m, "ts")
IsPong(m) == Has(m, "t") /\ m.t = "pong" /\ Has(m, "ts")

\* (m as NetMessage).from = from; this.bus.emit("netMessage", m)
Deliver_KeepsWireFrom(w, from, m) ==
  Dispatch(w, <<"netMessage", IF Has(m, "from") THEN m ELSE Spread(m, [from |-> from])>>)

Deliver(w, from, m) == Dispatch(w, <<"netMessage", Spread(m, [from |-> from])>>)

\* the answer to a ping: getPeer(from)?.dcUnreliable?.send(pong); send throws on a
\* channel that is not open
AnswerPing(w, from, m) ==
  LET h == Get(w.peers, from)
  IN IF h = 0 \/ ~Has(w.infos[h], "dcUnreliable") THEN w
     ELSE IF w.infos[h].dcUnreliable.readyState # "open" THEN Throw(w)
     ELSE Send(w, from, "unreliable",
               [kind |-> "string", shape |-> "object", value |-> [t |-> "pong", ts |-> m.ts]])

RecordPong(w, from, m, now) ==
  LET h == Get(w.peers, from)
  IN IF h = 0 THEN w
     ELSE Dispatch([w EXCEPT !.infos[h] = Spread(@, [pingMs |-> now - m.ts, lastPongTs |-> now])],
                   <<"ping", from, now - m.ts>>)

\* dc.onmessage = (ev) => this.onMessage(info.id, ev.data), at time now
onMessage(w, from, data, now) ==
  IF w.disposed THEN w
  ELSE IF data.kind = "string"
  THEN IF data.shape # "object" THEN w
       ELSE IF IsPing(data.value) THEN AnswerPing(w, from, data.value)
       ELSE IF IsPong(data.value) THEN RecordPong(w, from, data.value, now)
       ELSE Deliver(w, from, data.value)
  ELSE \* decoding, the assignment of from and the listeners all run inside try/catch
       IF data.shape # "object" THEN w
       ELSE [Deliver(w, from, data.value) EXCEPT !.threw = FALSE]

(***************************************************************************)
(* P2PGameLibrary                                                          *)
(***************************************************************************)
broadcastMove(w, selfId, position, velocity, now) ==
  IF w.libDisposed THEN Throw(w)
  ELSE LET w1 == nextSeq(w, selfId)
       IN broadcast(w1, [t |-> "move", from |-> selfId, ts |-> now, seq |-> w1.seqCounters[selfId],
                         position |-> position, velocity |-> velocity], <<>>)

announcePresence(w, selfId, position, now) ==
  IF w.libDisposed THEN Throw(w)
  ELSE LET w1 == IF selfId \in DOMAIN w.state.players /\ w.state.players[selfId] # Undefined THEN w
                 ELSE [w EXCEPT !.state.players =
                         MapSet(@, selfId, [id |-> selfId, position |-> position])]
       IN broadcast(w1, [t |-> "move", from |-> selfId, ts |-> now, position |-> position], <<>>)

\* PeerManager.createOrJoin up to its await of signaling.register()
createOrJoin(w) == [w EXCEPT !.registering = @ + 1]

\* ... and after it: the callbacks of the signaling adapter are registered (they are
\* the steps of the environment) and the ping loop is armed
Registered(w) == [w EXCEPT !.registering = @ - 1, !.pingIntervalId = TRUE]

start(w) == IF w.libDisposed THEN Throw(w) ELSE createOrJoin(w)

\* EventBus.on for a handler of the application
on(w, name) ==
  IF w.libDisposed THEN Throw(w) ELSE [w EXCEPT !.userListeners = @ \cup {name}]

\* An object handed to the application: ref 0 is the object the StateManager works on,
\* any other ref an object of its own, whose content is value.
InternalRef == 0
FreshRef(w) == 1 + Len(w.held)

getState_ReturnsInternal(w) ==
  IF w.libDisposed THEN Throw(w)
  ELSE [w EXCEPT !.held = Append(@, [ref |-> InternalRef, value |-> w.state])]

\* return structuredClone(this.state.getState()): a new object with the same content
getState(w) ==
  IF w.libDisposed THEN Throw(w)
  ELSE [w EXCEPT !.held = Append(@, [ref |-> FreshRef(w), value |-> w.state])]

getHostId(w) == IF w.libDisposed THEN Throw(w) ELSE w

setStateAndBroadcast_NoDisposedCheck(w, selfId, changes, now) ==
  LET w1 == setPathsValues(w, changes)
  IN IF w1.threw THEN w1
     ELSE broadcastDelta(w1, selfId, [i \in 1..Len(changes) |-> changes[i].path], now)

setStateAndBroadcast(w, selfId, changes, now) ==
  IF w.libDisposed THEN Throw(w)
  ELSE LET w1 == setPathsValues(w, changes)
       IN IF w1.threw THEN w1
          ELSE broadcastDelta(w1, selfId, [i \in 1..Len(changes) |-> changes[i].path], now)

updateInventory(w, selfId, items, options, now) ==
  IF w.libDisposed THEN Throw(w)
  ELSE LET w1 == nextSeq(w, selfId)
       IN broadcast(w1, [t |-> "inventory", from |-> selfId, ts |-> now,
                         seq |-> w1.seqCounters[selfId], items |-> items], options)

transferItem(w, selfId, to, item, options, now) ==
  IF w.libDisposed THEN Throw(w)
  ELSE LET w1 == nextSeq(w, selfId)
       IN broadcast(w1, [t |-> "transfer", from |-> selfId, ts |-> now,
                         seq |-> w1.seqCounters[selfId], to |-> to, item |-> item], options)

\* the payload and the channel name are carried opaquely
SharedPayload(w, selfId, payload, channel, now) ==
  [t |-> "payload", from |-> selfId, ts |-> now, seq |-> w.seqCounters[selfId],
   payload |-> payload, channel |-> channel]

broadcastPayload(w, selfId, payload, channel, options, now) ==
  IF w.libDisposed THEN Throw(w)
  ELSE LET w1 == nextSeq(w, selfId)
       IN broadcast(w1, SharedPayload(w1, selfId, payload, channel, now), options)

sendPayload(w, selfId, to, payload, channel, options, now) ==
  IF w.libDisposed THEN Throw(w)
  ELSE LET w1 == nextSeq(w, selfId)
       IN send(w1, to, SharedPayload(w1, selfId, payload, channel, now), options)

\* PingOverlay.setEnabled (the canvas is not modelled)
setEnabled(w, enabled) == [w EXCEPT !.overlayEnabled = enabled]

setPingOverlayEnabled(w, enabled) ==
  IF w.libDisposed THEN Throw(w) ELSE setEnabled(w, enabled)

Min(a, b) == IF a <= b THEN a ELSE b
Clamp(lo, hi, v) == Max(lo, Min(hi, v))

AllowedMs_NoBudget(w, id, now) ==
  LET lastFrameTs == IF id \in DOMAIN w.lastFrameTsByPlayer THEN w.lastFrameTsByPlayer[id] ELSE now
  IN Max(0, now - lastFrameTs)

\* allowedDtSec of a player, in milliseconds
AllowedMs(w, id, now) ==
  LET lastMoveTs == w.lastMoveTsByPlayer[id]
      lastFrameTs == IF id \in DOMAIN w.lastFrameTsByPlayer THEN w.lastFrameTsByPlayer[id] ELSE now
      frameDt == Max(0, now - lastFrameTs)
      alreadyExtrapolatedMs == Max(0, lastFrameTs - lastMoveTs)
      remainingMs == Max(0, w.cfg.extrapolationMs - alreadyExtrapolatedMs)
  IN Max(0, Min(frameDt, remainingMs))

\* v * allowedDtSec * smoothing with v clamped to maxSpeed
Advance(w, v, allowedMs) ==
  (Clamp(0 - w.cfg.maxSpeed, w.cfg.maxSpeed, v) * allowedMs * w.cfg.smoothingPerMille) \div 1000000

\* the position of the player after the frame
NextPosition(w, player, allowedMs) ==
  LET pos == player.position
      vel == player.velocity
      nextX == pos.x + Advance(w, vel.x, allowedMs)
      nextY == pos.y + Advance(w, vel.y, allowedMs)
      nextZ == (IF Has(pos, "z") THEN pos.z ELSE 0)
               + Advance(w, IF Has(vel, "z") THEN vel.z ELSE 0, allowedMs)
      depth == IF Has(w.cfg.worldBounds, "depth") THEN w.cfg.worldBounds.depth ELSE 0
  IN IF w.cfg.ignoreWorldBounds THEN Spread(pos, [x |-> nextX, y |-> nextY, z |-> nextZ])
     ELSE Spread(pos, [x |-> Clamp(0, w.cfg.worldBounds.width, nextX),
                       y |-> Clamp(0, w.cfg.worldBounds.height, nextY),
                       z |-> IF depth > 0 THEN Clamp(0, depth, nextZ) ELSE nextZ])

\* the body of the loop of interpolate for the player stored under key
InterpolatePlayer(w, key, now) ==
  LET player == w.state.players[key]
  IN IF player = Undefined THEN Throw(w)
     ELSE IF player.id \notin DOMAIN w.lastMoveTsByPlayer \/ ~Has(player, "velocity")
     THEN [w EXCEPT !.lastFrameTsByPlayer = MapSet(@, player.id, now)]
     ELSE LET allowedMs == AllowedMs(w, player.id, now)
              w1 == IF allowedMs > 0
                    THEN [w EXCEPT !.state.players[key].position = NextPosition(w, player, allowedMs)]
                    ELSE w
          IN [w1 EXCEPT !.lastFrameTsByPlayer = MapSet(@, player.id, now)]

RECURSIVE InterpolateAll(_, _, _)
InterpolateAll(w, keys, now) ==
  IF keys = <<>> \/ w.threw THEN w
  ELSE InterpolateAll(InterpolatePlayer(w, Head(keys), now), Tail(keys), now)

\* Object.values(gs.players): keys that are array indices ("1", "2", "10") come in
\* ascending numeric order, before the other keys (at most one in the states here)
KeyBefore(a, b) ==
  IF digitOnly(a) /\ digitOnly(b) THEN BigInt(a) <= BigInt(b)
  ELSE IF digitOnly(a) # digitOnly(b) THEN digitOnly(a)
  ELSE a = b \/ StringLess(a, b)

RECURSIVE ObjectKeys(_)
ObjectKeys(S) ==
  IF S = {} THEN <<>>
  ELSE LET k == CHOOSE m \in S : \A o \in S : KeyBefore(m, o)
       IN <<k>> \o ObjectKeys(S \ {k})

Abs(n) == IF n < 0 THEN 0 - n ELSE n
PosZ(p) == IF Has(p.position, "z") THEN p.position.z ELSE 0

\* Math.sqrt of a square below (2 * playerRadius)^2
Sqrt(n) == CHOOSE r \in 0..(2 * playerRadius) : r * r <= n /\ n < (r + 1) * (r + 1)

\* the body of the loops for the pair (a, b).  eps = 1e-6 is below the resolution of
\* the positions: dist < eps exactly when dist = 0, and Math.max(eps, dist) then
\* counts for 0.
NudgeApart(a, b) ==
  LET dx == b.position.x - a.position.x
      dy == b.position.y - a.position.y
      dz == PosZ(b) - PosZ(a)
      distSq == dx * dx + dy * dy + dz * dz
      minDist == playerRadius * 2
  IN IF distSq < minDist * minDist
     THEN LET dist == Sqrt(distSq)
              overlap == (minDist - dist) \div 2
              \* n * overlap on one axis, n being (1, 0, 0) when the positions are identical
              nx(d, one) == IF dist = 0 THEN one ELSE (d * overlap) \div dist
          IN <<[a EXCEPT !.position = Spread(@, [x |-> a.position.x - nx(dx, overlap),
                                                 y |-> a.position.y - nx(dy, 0),
                                                 z |-> PosZ(a) - nx(dz, 0)])],
               [b EXCEPT !.position = Spread(@, [x |-> b.position.x + nx(dx, overlap),
                                                 y |-> b.position.y + nx(dy, 0),
                                                 z |-> PosZ(b) + nx(dz, 0)])]>>
     ELSE <<a, b>>

\* for (i ...) for (j = i + 1 ...): one pass over the pairs; reading the position of
\* a player that is undefined throws
RECURSIVE ResolvePairs(_, _, _)
ResolvePairs(r, i, j) ==
  IF r.threw \/ i > Len(r.vals) THEN r
  ELSE IF j > Len(r.vals) THEN ResolvePairs(r, i + 1, i + 2)
  ELSE IF r.vals[i] = Undefined \/ r.vals[j] = Undefined THEN [r EXCEPT !.threw = TRUE]
  ELSE LET ab == NudgeApart(r.vals[i], r.vals[j])
       IN ResolvePairs([r EXCEPT !.vals[i] = ab[1], !.vals[j] = ab[2]], i, j + 1)

\* MovementSystem.interpolate
interpolate(w, now) == InterpolateAll(w, ObjectKeys(DOMAIN w.state.players), now)

\* MovementSystem.resolveCollisions: the players are nudged in place
resolveCollisions(w) ==
  LET keys == ObjectKeys(DOMAIN w.state.players)
      r == ResolvePairs([vals |-> [i \in 1..Len(keys) |-> w.state.players[keys[i]]],
                         threw |-> FALSE], 1, 2)
      key(k) == CHOOSE i \in 1..Len(keys) : keys[i] = k
      w1 == [w EXCEPT !.state.players = [k \in DOMAIN @ |-> r.vals[key(k)]]]
  IN IF r.threw THEN Throw(w1) ELSE w1

tick(w, now) ==
  IF w.libDisposed THEN Throw(w)
  ELSE LET w1 == interpolate(w, now)
       IN IF w1.threw THEN w1 ELSE resolveCollisions(w1)

\* PingOverlay.dispose: the subscription to "ping", the history and the canvas go
overlayDispose(w) == w

\* MovementSystem.dispose: releases the integrator; it returns normally
movementDispose(w) == w

\* stop: the unsubs loop and bus.clear() leave no listener on the bus
stop(w) ==
  IF w.libDisposed THEN w
  ELSE LET w1 == dispose([w EXCEPT !.libDisposed = TRUE, !.subscribed = FALSE])
           w2 == movementDispose(overlayDispose(w1))
       IN [w2 EXCEPT !.userListeners = {}]

(***************************************************************************)
(* Specification SpecPM: a PeerManager for the local id "2" after          *)
(* createOrJoin, with remote ids "1" (smaller: it initiates) and "10"      *)
(* (larger: the local node initiates).  The environment delivers rosters,  *)
(* offers, answers, connection state changes and data channel events, and  *)
(* resumes the suspended async handlers.                                   *)
(***************************************************************************)
\* the step of a PeerManager handler: what it leaves, without the garbage
Precedes(q, p) == q[2] < p[2] \/ (q[2] = p[2] /\ q[1] < p[1])

CommitLive(v) ==
  \E w \in {Sweep(v)} :
   /\ LastSeqOf(w.seqCounters, LocalId) <= MaxSeq
   /\ \E keys \in {{<<h, ContentKey(w.infos[h])>> : h \in DOMAIN w.infos}} :
      \E order \in {{<<p[1], 1 + Cardinality({q \in keys : Precedes(q, p)})>> : p \in keys}} :
        IF \A p \in order : p[1] = p[2] THEN Commit(w) ELSE Commit(Renumber(w, order))

RemoteIds == {P1, P10}
Rosters == {<<LocalId>>, <<LocalId, P1>>, <<LocalId, P10>>, <<P1, LocalId, P10>>}
Handles == DOMAIN infos

InitPM ==
  /\ InitStateManager("timestamp")
  /\ authoritativeClientId = NoId
  /\ InitPeerManager(0)
  /\ pingIntervalId = TRUE
  /\ registering = 0
  /\ InitLibrary(FALSE)
  /\ InitObs
  /\ InitNoOrd
  /\ InitNoBus
  /\ InitNoWire

OnRosterOf(r) ==
  /\ Cardinality(Handles) < MaxRtc
  /\ CommitLive((onRoster(W, r)))

OnRoster ==
  \E r \in Rosters :
    /\ OnRosterOf(r)
    /\ lastOp' = [op |-> "onRoster"]

\* the connection an answer or an offer from this peer would start an operation on
\* is not already running one
Free(m, from) == IF Get(m, from) = 0 THEN TRUE ELSE infos[Get(m, from)].pc = "idle"

OnAnswer ==
  \E from \in RemoteIds \cup {LocalId} :
    /\ Free(peers, from)
    /\ CommitLive((onAnswer(W, from)))
    /\ lastOp' = [op |-> "onRemoteDescription"]

OnOfferOf(from) ==
  /\ Cardinality(Handles) < MaxRtc
  /\ Free(peers, from)
  /\ CommitLive((onOffer(W, from)))

OnOffer ==
  \E from \in RemoteIds \cup {LocalId} :
    /\ OnOfferOf(from)
    /\ lastOp' = [op |-> "onRemoteDescription"]

Resume(h, w) ==
  /\ CommitLive((w))
  /\ lastOp' = [op |-> "resume"]

Signal(w, h, type) == w

\* createOfferTo after createOffer, setLocalDescription and announce
OfferAnnounced ==
  \E h \in Handles :
    /\ infos[h].pc = "createOffer"
    /\ Resume(h, Signal([W EXCEPT !.infos[h].signalingState = "have-local-offer",
                                       !.infos[h].pc = "idle"], h, "offer"))

\* the answer branch after setRemoteDescription
AnswerApplied ==
  \E h \in Handles :
    /\ infos[h].pc = "setRemoteAnswer"
    /\ Resume(h, flushBufferedIce([W EXCEPT !.infos[h].signalingState = "stable",
                                                 !.infos[h].remoteDescription = TRUE,
                                                 !.infos[h].pc = "idle"], infos[h].id, h))

\* the offer branch after setRemoteDescription
OfferApplied ==
  \E h \in Handles :
    /\ infos[h].pc = "setRemoteOffer"
    /\ Resume(h, flushBufferedIce([W EXCEPT !.infos[h].signalingState = "have-remote-offer",
                                                 !.infos[h].remoteDescription = TRUE,
                                                 !.infos[h].pc = "createAnswer"], infos[h].id, h))

\* the offer branch after createAnswer, setLocalDescription and announce
AnswerAnnounced ==
  \E h \in Handles :
    /\ infos[h].pc = "createAnswer"
    /\ Resume(h, Signal([W EXCEPT !.infos[h].signalingState = "stable",
                                       !.infos[h].pc = "idle"], h, "answer"))

\* the connection states the connection can report after cur
NextConnectionStates(cur) ==
  CASE cur = "new" -> {"connecting"}
    [] cur = "connecting" -> {"connected", "failed"}
    [] cur = "connected" -> {"disconnected", "failed", "closed"}
    [] cur = "disconnected" -> {"connected", "failed", "closed"}
    [] OTHER -> {}

\* a connection reported closed is closed
Report(w, h, s) ==
  IF s = "closed" THEN CloseRtc(w, h) ELSE [w EXCEPT !.infos[h].connectionState = s]

\* the transports of a connection start once it has both descriptions
ConnectionStateChange ==
  \E h \in Handles :
   \E s \in NextConnectionStates(infos[h].connectionState) :
    /\ infos[h].remoteDescription
    /\ CommitLive((onconnectionstatechange(Report(W, h, s), h)))
    /\ lastOp' = [op |-> "onconnectionstatechange"]

Dispose ==
  /\ CommitLive((dispose(W)))
  /\ lastOp' = [op |-> "dispose"]

NextPM ==
  \/ OnRoster
  \/ OnAnswer
  \/ OnOffer
  \/ OfferAnnounced
  \/ AnswerApplied
  \/ OfferApplied
  \/ AnswerAnnounced
  \/ ConnectionStateChange
  \/ Dispose

SpecPM == InitPM /\ [][NextPM]_vars

\* C3: in every reachable state hostId is the minimum, by the PlayerId order, of
\* {localId} and the keys of peers (here: once a host has been elected and until
\* the PeerManager is disposed).
C3_HostIsMinimum ==
  (hostId # NoId /\ ~disposed) => hostId = ReduceMin(<<LocalId>> \o Keys(peers))

IsHostChange(ev) == ev[1] = "hostChange"
IsPeerJoin(ev) == ev[1] = "peerJoin"

\* C15: when a remote connection reaches connected, the peer is inserted into peers,
\* then hostChange is emitted (if the host changed), then peerJoin: in that handler
\* no hostChange follows the peerJoin, and peers contains the new peer when the
\* listeners of hostChange and of peerJoin run.
C15_HostChangeBeforeJoin ==
  lastOp.op = "onconnectionstatechange" =>
    \A i \in 1..Len(emitted) :
      IsPeerJoin(emitted[i]) =>
        /\ \A j \in (i + 1)..Len(emitted) : ~IsHostChange(emitted[j])
        /\ \A j \in 1..i : emitted[i][2] \in Range(peersAtEmit[j])

\* a connection reached connected and changed the host: hostChange, then peerJoin
C15_Witness ==
  /\ lastOp.op = "onconnectionstatechange"
  /\ Len(emitted) = 2
  /\ IsHostChange(emitted[1])
  /\ IsPeerJoin(emitted[2])

(***************************************************************************)
(* Specification SpecCap: the PeerManager of SpecPM constructed with       *)
(* maxPlayers = 1 or 2, as the capacity tests build it; the rosters and    *)
(* the offers are recorded with their input.                               *)
(***************************************************************************)
Capacities == {1, 2}

InitCap ==
  /\ InitStateManager("timestamp")
  /\ authoritativeClientId = NoId
  /\ \E mp \in Capacities : InitPeerManager(mp)
  /\ pingIntervalId = TRUE
  /\ registering = 0
  /\ InitLibrary(FALSE)
  /\ InitObs
  /\ InitNoOrd
  /\ InitNoBus
  /\ InitNoWire

RosterArrives ==
  \E r \in Rosters :
    /\ OnRosterOf(r)
    /\ lastOp' = [op |-> "roster", roster |-> r]

OfferArrives ==
  \E from \in RemoteIds \cup {LocalId} :
    /\ OnOfferOf(from)
    /\ lastOp' = [op |-> "offer", from |-> from]

NextCap ==
  \/ RosterArrives
  \/ OfferArrives
  \/ OnAnswer
  \/ OfferAnnounced
  \/ AnswerApplied
  \/ OfferApplied
  \/ AnswerAnnounced
  \/ ConnectionStateChange
  \/ Dispose

SpecCap == InitCap /\ [][NextCap]_vars

\* the connections the PeerManager holds: those of peers and pendingInitiators, and
\* the responder connections that are being negotiated
IsHeld(h) ==
  \/ \E i \in 1..Len(peers) : peers[i].rtc = h
  \/ \E i \in 1..Len(pendingInitiators) : pendingInitiators[i].rtc = h
  \/ infos[h].connectionState \in {"new", "connecting"}

\* C12: with maxPlayers = N the number of remote connections the PeerManager holds
\* (active peers, pending initiators, responder connections being negotiated) never
\* exceeds N - 1.
C12_CapacityBound ==
  Cardinality({h \in DOMAIN infos : IsHeld(h)}) <= maxPlayers - 1

IsCapacityEvent(ev) == ev = <<"maxCapacityReached", maxPlayers>>

\* the slots in use once the roster r has evicted the peers it does not name
RosterSlots(r) ==
  Cardinality({i \in 1..Len(peers) : peers[i].id \in Range(r)})
  + Cardinality({i \in 1..Len(pendingInitiators) : pendingInitiators[i].id \in Range(r)})

\* the entries of the roster r that name a remote peer that is not connected
NotConnected(r) ==
  {i \in 1..Len(r) :
     /\ r[i] # LocalId
     /\ ~\E j \in 1..Len(peers) :
           peers[j].id = r[i] /\ infos[peers[j].rtc].connectionState = "connected"}

\* C13: when |peers| + |pendingInitiators| >= maxPlayers - 1, an inbound offer from a
\* remote peer, and every roster entry naming a remote peer that is not connected,
\* makes the (live) PeerManager emit maxCapacityReached(maxPlayers), create no peer
\* connection and start no offer or answer.
C13_AtCapacityRefused ==
  [][ (~disposed /\ maxPlayers # 0) =>
        /\ (/\ lastOp'.op = "offer"
            /\ lastOp'.from # LocalId
            /\ Len(peers) + Len(pendingInitiators) >= maxPlayers - 1)
           => /\ emitted' = <<<<"maxCapacityReached", maxPlayers>>>>
              /\ infos' = infos
              /\ peers' = peers
              /\ pendingInitiators' = pendingInitiators
        /\ (/\ lastOp'.op = "roster"
            /\ RosterSlots(lastOp'.roster) >= maxPlayers - 1)
           => /\ Cardinality({i \in 1..Len(emitted') : IsCapacityEvent(emitted'[i])})
                   = Cardinality(NotConnected(lastOp'.roster))
              /\ Range(Keys(pendingInitiators')) \subseteq Range(Keys(pendingInitiators))
              /\ Cardinality(DOMAIN infos') <= Cardinality(DOMAIN infos) ]_vars

\* an offer from a remote peer was refused at capacity while one slot was in use
C13_Witness ==
  /\ lastOp.op = "offer"
  /\ lastOp.from # LocalId
  /\ Len(peers) + Len(pendingInitiators) >= 1
  /\ emitted = <<<<"maxCapacityReached", maxPlayers>>>>

(***************************************************************************)
(* Specification SpecHost: the PeerManager of SpecPM inside a              *)
(* P2PGameLibrary in authoritative mode, constructed without               *)
(* authoritativeClientId; the listeners of the facade run on every event.  *)
(***************************************************************************)
DefaultMaxPlayers == 4

InitHost ==
  /\ InitStateManager("authoritative")
  /\ authoritativeClientId = NoId
  /\ InitPeerManager(DefaultMaxPlayers)
  /\ pingIntervalId = TRUE
  /\ registering = 0
  /\ InitLibrary(TRUE)
  /\ InitObs
  /\ InitNoOrd
  /\ InitNoBus
  /\ InitNoWire

SpecHost == InitHost /\ [][NextPM]_vars

\* C11: in authoritative mode with no authoritativeClientId configured, after every
\* hostChange(h), the first election and every later migration, the authority id
\* the conflict resolver reads is h.
C11_AuthorityFollowsHost ==
  \A i \in 1..Len(emitted) :
    (IsHostChange(emitted[i]) /\ \A j \in (i + 1)..Len(emitted) : ~IsHostChange(emitted[j]))
      => authoritativeClientId = emitted[i][2]

IsFullStatePayload(payload) ==
  payload.shape = "object" /\ payload.value.t = "state_full" /\ payload.value.from = LocalId

\* a state_full of the local node was handed to the peer id in this step: sent on a
\* channel, or appended to its reliable outbox
FullStateHanded(id) ==
  \/ \E i \in 1..Len(sent') : sent'[i].to = id /\ IsFullStatePayload(sent'[i].payload)
  \/ /\ HasKey(peers, id)
     /\ LET before == OutboxOf(infos[Get(peers, id)], "reliable")
            after == OutboxOf(infos'[Get(peers', id)], "reliable")
        IN /\ Len(after) = Len(before) + 1
           /\ IsFullStatePayload(after[Len(after)])

\* C14: when the current host goes away, seen as its transport reaching
\* disconnected/failed/closed or as its removal from the roster, the node re-elects:
\* hostId is the minimum of the remaining ids, and when that is the local node it
\* emits hostChange(localId) and broadcasts a state_full to its peers.
C14_HostLossReelects ==
  [][ (/\ hostId # NoId
       /\ hostId # LocalId
       /\ HasKey(peers, hostId)
       /\ ~HasKey(peers', hostId)
       /\ ~disposed')
      => /\ hostId' = ReduceMin(<<LocalId>> \o Keys(peers'))
         /\ hostId' = LocalId =>
              /\ \E i \in 1..Len(emitted') : emitted'[i] = <<"hostChange", LocalId>>
              /\ \A j \in 1..Len(peers') : FullStateHanded(peers'[j].id) ]_vars

(***************************************************************************)
(* Specification SpecSession: a running session of the local node "2"      *)
(* (P2PGameLibrary with its PeerManager and StateManager) in which the     *)
(* peers "1" and "10" are connected with both data channels open: "1" made *)
(* the offer and is the host, "10" answered the local offer.  The peers    *)
(* send frames, the application announces its presence and publishes its   *)
(* moves.                                                                  *)
(***************************************************************************)
OpenChannel == [readyState |-> "open", bufferedAmount |-> 0, opened |-> TRUE]

ConnectedInfo(id) ==
  Spread(NewInfo(id), [connectionState |-> "connected", remoteDescription |-> TRUE,
                       dcUnreliable |-> OpenChannel, dcReliable |-> OpenChannel])

InitSession ==
  /\ InitStateManager("timestamp")
  /\ authoritativeClientId = NoId
  /\ peers = <<[id |-> P1, rtc |-> 1], [id |-> P10, rtc |-> 2]>>
  /\ pendingInitiators = <<>>
  /\ pendingTimeouts = <<>>
  /\ bufferedRemoteIce = <<>>
  /\ hostId = P1
  /\ disposed = FALSE
  /\ pingIntervalId = TRUE
  /\ registering = 0
  /\ maxPlayers = 4
  /\ backpressure = DefaultBackpressure
  /\ infos = <<ConnectedInfo(P1), ConnectedInfo(P10)>>
  /\ InitLibrary(TRUE)
  /\ InitObs
  /\ InitNoOrd
  /\ InitNoBus
  /\ InitNoWire

Attacker == <<65>>

Text(m) == [kind |-> "string", shape |-> "object", value |-> m]
Binary(m) == [kind |-> "binary", shape |-> "object", value |-> m]

\* what the peers put in their frames: the from field is theirs to choose
WireObjects ==
  {Move(f, 2, 2) : f \in {LocalId, P1, Attacker}}
  \cup {Spread(Move(LocalId, 3, 3), [seq |-> 1])}
  \cup {[t |-> "move", ts |-> 1, position |-> [x |-> 2, y |-> 2]]}
  \cup {FullState(P1, SnapA), DeltaMsg(P10, DeltaNoChanges)}

Frames ==
  {[kind |-> k, shape |-> sh] : k \in {"string", "binary"}, sh \in {"invalid", "null", "number"}}
  \cup {Text(m) : m \in WireObjects} \cup {Binary(m) : m \in WireObjects}

Pings == {Text([t |-> "ping", ts |-> 1]), Text([t |-> "pong", ts |-> 1])}

Times == {2}

\* a frame arrives on a data channel of the PeerInfo h
Frame ==
  \E h \in DOMAIN infos, data \in Frames, now \in Times :
    /\ Has(infos[h], "dcUnreliable") \/ Has(infos[h], "dcReliable")
    /\ Commit(onMessage(W, infos[h].id, data, now))
    /\ lastOp' = [op |-> "onMessage", from |-> infos[h].id, data |-> data]

Ping ==
  \E h \in DOMAIN infos, data \in Pings, now \in Times :
    /\ Has(infos[h], "dcUnreliable") \/ Has(infos[h], "dcReliable")
    /\ Commit(onMessage(W, infos[h].id, data, now))
    /\ lastOp' = [op |-> "onMessage", from |-> infos[h].id, data |-> data]

AnnouncePresence ==
  \E now \in Times :
    /\ Commit(announcePresence(W, LocalId, [x |-> 1, y |-> 1], now))
    /\ lastOp' = [op |-> "announcePresence"]

BroadcastMove ==
  \E now \in Times, velocity \in {Undefined, [x |-> 1, y |-> 0]} :
    /\ LastSeqOf(seqCounters, LocalId) < MaxSeq
    /\ Commit(broadcastMove(W, LocalId, [x |-> 1, y |-> 1], velocity, now))
    /\ lastOp' = [op |-> "broadcastMove"]

NextSession ==
  \/ Frame
  \/ Ping
  \/ AnnouncePresence
  \/ BroadcastMove

SpecSession == InitSession /\ [][NextSession]_vars

IsNetMessage(ev) == ev[1] = "netMessage"

\* C2: every netMessage emitted for a frame (text or binary) received on the
\* transport of peer p carries from = p, whatever from the frame contained.
C2_FromIsTransport ==
  lastOp.op = "onMessage" =>
    \A i \in 1..Len(emitted) : IsNetMessage(emitted[i]) => emitted[i][2].from = lastOp.from

\* a binary frame with a forged from was delivered as a netMessage
C2_Witness ==
  /\ lastOp.op = "onMessage"
  /\ lastOp.data.kind = "binary"
  /\ lastOp.data.shape = "object"
  /\ Has(lastOp.data.value, "from")
  /\ lastOp.data.value.from # lastOp.from
  /\ \E i \in 1..Len(emitted) : IsNetMessage(emitted[i])

IsFullStateFrame(op) ==
  /\ op.op = "onMessage"
  /\ op.data.shape = "object"
  /\ Has(op.data.value, "t")
  /\ op.data.value.t = "state_full"

\* C5: once the local player has live state and has published moves with
\* broadcastMove(localId, ...), an inbound state_full leaves players[localId] and
\* inventories[localId] unchanged.
C5_LocalViewKept ==
  [][ (/\ IsFullStateFrame(lastOp')
       /\ LocalId \in DOMAIN state.players
       /\ LocalId \in DOMAIN seqCounters)
      => /\ SameEntry(state.players, state'.players, LocalId)
         /\ SameEntry(state.inventories, state'.inventories, LocalId) ]_vars

(***************************************************************************)
(* Specification SpecNet: the outbound path of a PeerManager with two      *)
(* peers.  "1" made the offer: its data channels arrive with               *)
(* ondatachannel, open, fill up and close.  "10" answered the local offer: *)
(* its channels stay open and idle.  The application calls send and        *)
(* broadcast with every kind of message and option; the backpressure       *)
(* strategy is any of the three.                                           *)
(***************************************************************************)
MaxOutbox == 2

Strategies == {"off", "drop-moves", "coalesce-moves"}

\* a PeerInfo made by createPeer for an inbound offer: its channels come later
ResponderInfo(id) ==
  Spread(NewInfo(id), [connectionState |-> "connected", remoteDescription |-> TRUE])

InitNet ==
  /\ InitStateManager("timestamp")
  /\ authoritativeClientId = NoId
  /\ peers = <<[id |-> P1, rtc |-> 1], [id |-> P10, rtc |-> 2]>>
  /\ pendingInitiators = <<>>
  /\ pendingTimeouts = <<>>
  /\ bufferedRemoteIce = <<>>
  /\ hostId = P1
  /\ disposed = FALSE
  /\ pingIntervalId = TRUE
  /\ registering = 0
  /\ maxPlayers = 0
  /\ \E st \in Strategies : backpressure = [strategy |-> st, thresholdBytes |-> ThresholdBytes]
  /\ infos = <<ResponderInfo(P1), ConnectedInfo(P10)>>
  /\ InitLibrary(FALSE)
  /\ InitObs
  /\ InitNoOrd
  /\ InitNoBus
  /\ InitNoWire

\* the PeerInfos whose channels change state
Volatile == {h \in DOMAIN infos : infos[h].id = P1}

Kinds == {"unreliable", "reliable"}

OutMessages == {Move(LocalId, 1, 1), Move(LocalId, 2, 2), Inventory(LocalId, <<>>)}

\* options: omitted, { unreliable: true }, { unreliable: false }
SendOptions == {<<>>, [unreliable |-> TRUE], [unreliable |-> FALSE]}

\* the exploration stops queueing into an outbox that holds MaxOutbox payloads
CommitNet(v) ==
  /\ \A h \in DOMAIN v.infos : \A k \in Kinds : Len(OutboxOf(v.infos[h], k)) <= MaxOutbox
  /\ Commit(v)

\* send to the peer whose channels change, and to an id that is not a peer
SendTo ==
  \E to \in {P1, Attacker}, m \in OutMessages, o \in SendOptions :
    /\ CommitNet(send(W, to, m, o))
    /\ lastOp' = [op |-> "send", to |-> to, message |-> m, options |-> o]

Broadcast ==
  \E m \in OutMessages, o \in SendOptions :
    /\ CommitNet(broadcast(W, m, o))
    /\ lastOp' = [op |-> "broadcast", message |-> m, options |-> o]

\* rtc.ondatachannel on the responder side
DataChannel ==
  \E h \in Volatile, k \in Kinds :
    /\ ~Has(infos[h], DcField(k))
    /\ CommitNet(setupDataChannel(W, h, k, NewChannel))
    /\ lastOp' = [op |-> "ondatachannel"]

\* the channel becomes open and its open event is handled
ChannelOpen ==
  \E h \in Volatile, k \in Kinds :
    /\ Has(infos[h], DcField(k))
    /\ infos[h][DcField(k)].readyState = "connecting"
    /\ CommitNet(onopen([W EXCEPT !.infos[h][DcField(k)] = OpenChannel], h, k))
    /\ lastOp' = [op |-> "onopen", h |-> h, kind |-> k]

ChannelClose ==
  \E h \in Volatile, k \in Kinds :
    /\ Has(infos[h], DcField(k))
    /\ infos[h][DcField(k)].readyState = "open"
    /\ CommitNet([W EXCEPT !.infos[h] = CloseChannel(@, DcField(k)),
                           !.infos[h][DcField(k)].bufferedAmount = 0])
    /\ lastOp' = [op |-> "onclose"]

\* the amount of data the browser has buffered on an open channel changes
BufferedAmount ==
  \E h \in Volatile, k \in Kinds, b \in {0, ThresholdBytes + 1} :
    /\ Has(infos[h], DcField(k))
    /\ infos[h][DcField(k)].readyState = "open"
    /\ infos[h][DcField(k)].bufferedAmount # b
    /\ CommitNet([W EXCEPT !.infos[h][DcField(k)].bufferedAmount = b])
    /\ lastOp' = [op |-> "bufferedAmount"]

NextNet ==
  \/ SendTo
  \/ Broadcast
  \/ DataChannel
  \/ ChannelOpen
  \/ ChannelClose
  \/ BufferedAmount

SpecNet == InitNet /\ [][NextNet]_vars

IsOutbound(op) == op.op \in {"send", "broadcast"}

\* the kind of channel the contract gives a message and the options of its call
ExpectedKind(m, o) ==
  IF m.t \in {"move", "ping", "pong"} \/ (Has(o, "unreliable") /\ o.unreliable = TRUE)
  THEN "unreliable" ELSE "reliable"

OtherKind(k) == IF k = "unreliable" THEN "reliable" ELSE "unreliable"

\* the PeerInfos an outbound call addresses
Targets(op) ==
  IF op.op = "send"
  THEN {peers[i].rtc : i \in {j \in 1..Len(peers) : peers[j].id = op.to}}
  ELSE {peers[i].rtc : i \in 1..Len(peers)}

\* what the step handed to data channels of the peer id
SentTo(id) == {i \in 1..Len(sent') : sent'[i].to = id}

\* C16: send and broadcast hand the message to one kind of channel per target peer:
\* unreliable if its type is move, ping or pong or the call passes {unreliable: true},
\* reliable otherwise, whatever the options of earlier calls were.  The other kind
\* gets nothing (nothing sent, outbox unchanged); the chosen kind gets the payload
\* once, on the channel or in its outbox (a move may be coalesced or dropped there);
\* the peers that are not addressed get nothing.
C16_OneKindPerTarget ==
  [][ IsOutbound(lastOp') =>
        LET m == lastOp'.message
            k == ExpectedKind(m, lastOp'.options)
        IN \A h \in DOMAIN infos :
             IF h \in Targets(lastOp')
             THEN /\ OutboxOf(infos'[h], OtherKind(k)) = OutboxOf(infos[h], OtherKind(k))
                  /\ \A i \in SentTo(infos[h].id) :
                       sent'[i].via = k /\ sent'[i].payload = encode(m)
                  /\ Cardinality(SentTo(infos[h].id)) <= 1
                  /\ SentTo(infos[h].id) # {} => OutboxOf(infos'[h], k) = OutboxOf(infos[h], k)
                  /\ SentTo(infos[h].id) = {} =>
                       \/ m.t = "move"
                       \/ OutboxOf(infos'[h], k) = Append(OutboxOf(infos[h], k), encode(m))
             ELSE /\ infos'[h] = infos[h]
                  /\ SentTo(infos[h].id) = {} ]_vars

\* an inventory broadcast with {unreliable: true} went out on the unreliable channel
\* of "10" and into the unreliable outbox of "1"
C16_Witness ==
  /\ lastOp.op = "broadcast"
  /\ lastOp.message.t = "inventory"
  /\ lastOp.options = [unreliable |-> TRUE]
  /\ \E i \in 1..Len(sent) : sent[i].to = P10 /\ sent[i].via = "unreliable"
  /\ OutboxOf(infos[1], "unreliable") # <<>>
  /\ OutboxOf(infos[1], "reliable") = <<>>

\* C17: a message routed to the reliable channel of a peer is handed to that
\* channel at once when it is open, whatever its bufferedAmount and the backpressure
\* strategy (not dropped, coalesced or queued); while the channel is not open the
\* message is appended to the reliable outbox.
C17_ReliableBypassesBackpressure ==
  [][ (IsOutbound(lastOp') /\ ExpectedKind(lastOp'.message, lastOp'.options) = "reliable") =>
        \A h \in Targets(lastOp') :
          IF Has(infos[h], "dcReliable") /\ infos[h].dcReliable.readyState = "open"
          THEN /\ \E i \in SentTo(infos[h].id) :
                    /\ SentTo(infos[h].id) = {i}
                    /\ sent'[i].via = "reliable"
                    /\ sent'[i].payload = encode(lastOp'.message)
               /\ OutboxOf(infos'[h], "reliable") = OutboxOf(infos[h], "reliable")
          ELSE /\ SentTo(infos[h].id) = {}
               /\ OutboxOf(infos'[h], "reliable")
                    = Append(OutboxOf(infos[h], "reliable"), encode(lastOp'.message)) ]_vars

\* under drop-moves a message went out on the reliable channel of "1" although its
\* bufferedAmount was above the threshold
C17_Witness ==
  /\ IsOutbound(lastOp)
  /\ backpressure.strategy = "drop-moves"
  /\ Has(infos[1], "dcReliable")
  /\ infos[1].dcReliable.bufferedAmount > backpressure.thresholdBytes
  /\ \E i \in 1..Len(sent) : sent[i].to = P1 /\ sent[i].via = "reliable"

IsMovePayload(payload) == payload.shape = "object" /\ payload.value.t = "move"

\* a move was enqueued for (not sent to) the peer of h under coalesce-moves
MoveEnqueued(h) ==
  /\ IsOutbound(lastOp')
  /\ lastOp'.message.t = "move"
  /\ backpressure.strategy = "coalesce-moves"
  /\ h \in Targets(lastOp')
  /\ SentTo(infos[h].id) = {}

\* C18: under coalesce-moves, enqueueing a move replaces the last entry of the outbox
\* in place only when that entry is a move; when the last entry is not a move (or
\* the outbox is empty) the move is appended.
C18_CoalesceLastEntryOnly ==
  [][ \A h \in DOMAIN infos :
        MoveEnqueued(h) =>
          LET box == OutboxOf(infos[h], "unreliable")
              payload == encode(lastOp'.message)
          IN IF Len(box) > 0 /\ IsMovePayload(box[Len(box)])
             THEN OutboxOf(infos'[h], "unreliable") = [box EXCEPT ![Len(box)] = payload]
             ELSE OutboxOf(infos'[h], "unreliable") = Append(box, payload) ]_vars

\* C18 as amended: under coalesce-moves, enqueueing a move replaces in place the most
\* recently queued move of the outbox, wherever it is; the move is appended only when
\* the outbox holds no move; every other entry keeps its position.
C18_CoalesceLastMove ==
  [][ \A h \in DOMAIN infos :
        MoveEnqueued(h) =>
          LET box == OutboxOf(infos[h], "unreliable")
              payload == encode(lastOp'.message)
              moves == {i \in 1..Len(box) : IsMovePayload(box[i])}
          IN IF moves # {}
             THEN \E i \in moves :
                    /\ \A j \in moves : j <= i
                    /\ OutboxOf(infos'[h], "unreliable") = [box EXCEPT ![i] = payload]
             ELSE OutboxOf(infos'[h], "unreliable") = Append(box, payload) ]_vars

\* a move took the place of the move queued before an inventory update
C18_Witness ==
  /\ lastOp.op = "send"
  /\ lastOp.to = P1
  /\ lastOp.message.t = "move"
  /\ backpressure.strategy = "coalesce-moves"
  /\ sent = <<>>
  /\ OutboxOf(infos[1], "unreliable") = <<encode(lastOp.message), encode(Inventory(LocalId, <<>>))>>

MaxRegistering == 1

Stops == IF Has(lastOp, "stops") THEN lastOp.stops ELSE 0

Call(name, v) ==
  /\ CommitLive(v)
  /\ lastOp' = [op |-> name, stops |-> Stops]

SeqLeft == libDisposed \/ LastSeqOf(seqCounters, LocalId) < MaxSeq

EventNames == {"peerJoin", "playerMove"}
LifeChanges == LocalChanges \cup {<<[path |-> <<"tick", ObjKey>>, value |-> 0]>>}
ItemLists == {<<>>, <<Potion(1)>>}
\* an optional channel name
Channels == {Undefined, [name |-> "chat"]}

Start ==
  /\ libDisposed \/ registering < MaxRegistering
  /\ Call("start", start(W))

StartRegistered ==
  /\ registering > 0
  /\ CommitLive(Registered(W))
  /\ lastOp' = [op |-> "registered", stops |-> Stops]

On == \E name \in EventNames : Call("on", on(W, name))

\* the application reads the state and keeps no reference to what it got
GetState == Call("getState", [getState(W) EXCEPT !.held = <<>>])

GetHostId == Call("getHostId", getHostId(W))

Tick == \E now \in Times : Call("tick", tick(W, now))

LifeBroadcastMove ==
  \E now \in Times, velocity \in {Undefined, [x |-> 1, y |-> 0]} :
    /\ SeqLeft
    /\ Call("broadcastMove", broadcastMove(W, LocalId, [x |-> 1, y |-> 1], velocity, now))

LifeAnnouncePresence ==
  \E now \in Times : Call("announcePresence", announcePresence(W, LocalId, [x |-> 1, y |-> 1], now))

UpdateInventory ==
  \E items \in ItemLists, o \in SendOptions, now \in Times :
    /\ SeqLeft
    /\ Call("updateInventory", updateInventory(W, LocalId, items, o, now))

TransferItem ==
  \E to \in {P1}, o \in SendOptions, now \in Times :
    /\ SeqLeft
    /\ Call("transferItem", transferItem(W, LocalId, to, Potion(1), o, now))

BroadcastPayload ==
  \E ch \in Channels, o \in SendOptions, now \in Times :
    /\ SeqLeft
    /\ Call("broadcastPayload", broadcastPayload(W, LocalId, "hello", ch, o, now))

SendPayload ==
  \E to \in {P1, Attacker}, ch \in Channels, o \in SendOptions, now \in Times :
    /\ SeqLeft
    /\ Call("sendPayload", sendPayload(W, LocalId, to, "hello", ch, o, now))

BroadcastFullState ==
  \E now \in Times :
    /\ SeqLeft
    /\ Call("broadcastFullState", broadcastFullState(W, LocalId, now))

BroadcastDelta ==
  \E ps \in LocalPaths, now \in Times :
    /\ SeqLeft
    /\ libDisposed \/ state.tick < MaxTick
    /\ Call("broadcastDelta", broadcastDelta(W, LocalId, ps, now))

SetStateAndBroadcast ==
  \E c \in LifeChanges, now \in Times :
    /\ SeqLeft
    /\ libDisposed \/ state.tick < MaxTick
    /\ Call("setStateAndBroadcast", setStateAndBroadcast(W, LocalId, c, now))

SetPingOverlayEnabled ==
  \E enabled \in BOOLEAN : Call("setPingOverlayEnabled", setPingOverlayEnabled(W, enabled))

Stop ==
  /\ CommitLive(stop(W))
  /\ lastOp' = [op |-> "stop", stops |-> IF Stops < 2 THEN Stops + 1 ELSE 2]

NextLife ==
  \/ Start
  \/ StartRegistered
  \/ On
  \/ GetState
  \/ GetHostId
  \/ Tick
  \/ LifeBroadcastMove
  \/ LifeAnnouncePresence
  \/ UpdateInventory
  \/ TransferItem
  \/ BroadcastPayload
  \/ SendPayload
  \/ BroadcastFullState
  \/ BroadcastDelta
  \/ SetStateAndBroadcast
  \/ SetPingOverlayEnabled
  \/ Stop

SpecLife == InitSession /\ [][NextLife]_vars

\* the public methods other than stop
PublicMethods ==
  {"start", "on", "getState", "getHostId", "tick", "broadcastMove", "announcePresence",
   "updateInventory", "transferItem", "broadcastPayload", "sendPayload",
   "broadcastFullState", "broadcastDelta", "setStateAndBroadcast", "setPingOverlayEnabled"}

\* C20: a public method other than stop, called on a P2PGameLibrary that has been
\* stopped, raises and changes nothing: not the replicated state, not the peer
\* fabric, not the sequence counters, the listeners or the overlay, and nothing is
\* sent or emitted; and a call of stop(), the first or a repeat, does not raise.
C20_DisposedAfterStop ==
  [][/\ libDisposed /\ lastOp'.op \in PublicMethods
        => /\ threw'
           /\ UNCHANGED <<smVars, pmVars, libVars, busVars>>
           /\ sent' = <<>>
           /\ emitted' = <<>>
     /\ lastOp'.op = "stop" => ~threw' /\ libDisposed']_vars

\* setStateAndBroadcast has been called after a second stop() and has raised
C20_Witness ==
  /\ lastOp.op = "setStateAndBroadcast"
  /\ lastOp.stops = 2
  /\ libDisposed
  /\ threw

(***************************************************************************)
(* Specification SpecInv: a StateManager, in timestamp mode or in          *)
(* authoritative mode with the authority "1", receives moves, inventory    *)
(* updates (one of them lists the same item id twice), transfers of the    *)
(* quantities 0 and 1 between "1" and "10" (the sender may be the          *)
(* receiver), of -1 from "1" to "10" and of 1 from "1" to the local       *)
(* player, a snapshot and a delta that carry inventories.                  *)
(***************************************************************************)
Sword(q) == [id |-> "sword", type |-> "weapon", quantity |-> q]

InvSenders == {P1, P10}
TransferQtys == {0, 1}
InvItemLists == {<<Potion(1)>>, <<Potion(1), Sword(1)>>, <<Potion(1), Potion(1)>>}

InvMoveMsgs == {Move(P10, 1, 1)}
InvInventoryMsgs == {Inventory(f, items) : f \in InvSenders, items \in InvItemLists}
InvTransferMsgs ==
  {[t |-> "transfer", from |-> f, ts |-> 1, to |-> d, item |-> Potion(q)] :
     f \in InvSenders, d \in InvSenders, q \in TransferQtys}
  \cup {[t |-> "transfer", from |-> P1, ts |-> 1, to |-> d.to, item |-> d.item] :
          d \in {[to |-> P10, item |-> Potion(-1)], [to |-> P10, item |-> Sword(1)],
                 [to |-> LocalId, item |-> Potion(1)]}}
InvFullStateMsgs ==
  {FullState(P1, [players |-> <<>>, inventories |-> (P10 :> <<Sword(1)>>),
                  objects |-> <<>>, tick |-> 0])}
InvDeltaMsgs ==
  {DeltaMsg(P1, [tick |-> 1, changes |-> <<[path |-> <<"inventories", P10>>,
                                            value |-> <<Potion(1), Potion(1)>>]>>])}

InitInv ==
  /\ \E m \in {"timestamp", "authoritative"} : InitStateManager(m)
  /\ authoritativeClientId = IF mode = "authoritative" THEN P1 ELSE NoId
  /\ InitPeerManager(0)
  /\ pingIntervalId = FALSE
  /\ registering = 0
  /\ InitLibrary(FALSE)
  /\ InitObs
  /\ InitNoOrd
  /\ InitNoBus
  /\ InitNoWire

\* the exploration keeps the quantities within -MaxQty .. MaxQty
QtyBounded(invs) ==
  \A p \in DOMAIN invs : \A i \in 1..Len(invs[p]) :
    invs[p][i].quantity \in (0 - MaxQty)..MaxQty

InvHandle(m) ==
  /\ HandleNetMessage(m)
  /\ QtyBounded(state'.inventories)

InvMove == \E m \in InvMoveMsgs : InvHandle(m)
InvInventory == \E m \in InvInventoryMsgs : InvHandle(m)
InvTransfer == \E m \in InvTransferMsgs : InvHandle(m)
InvFullState == \E m \in InvFullStateMsgs : InvHandle(m)
InvDelta == \E m \in InvDeltaMsgs : InvHandle(m)

NextInv ==
  \/ InvMove
  \/ InvInventory
  \/ InvTransfer
  \/ InvFullState
  \/ InvDelta

SpecInv == InitInv /\ [][NextInv]_vars

\* the quantities of the entries of an inventory that carry the item id, added up
RECURSIVE SumQty(_, _)
SumQty(inv, id) ==
  IF inv = <<>> THEN 0
  ELSE (IF Head(inv).id = id THEN Head(inv).quantity ELSE 0) + SumQty(Tail(inv), id)

\* the entries of an inventory that carry the item id / another item id, in order
EntriesOf(inv, id) == SelectSeq(inv, LAMBDA e : e.id = id)
OtherEntries(inv, id) == SelectSeq(inv, LAMBDA e : e.id # id)

\* the step handles a transfer and accepts it (objectTransfer is emitted)
TransferAccepted ==
  /\ lastOp'.op = "handleNetMessage"
  /\ lastOp'.msg.t = "transfer"
  /\ emitted' # <<>>

\* C21: an accepted transfer of q of item i from A to B takes exactly q from A's
\* quantity of i, removing A's entry when it reaches 0, and adds exactly q to B's
\* quantity of i, in B's entry for i when it has one and in a new last entry when
\* not (A's and B's quantities are one and the same when A is B, and then do not
\* change); the entries for other items and the inventories of other players stay
\* as they are.
C21_TransferConserves ==
  [][TransferAccepted =>
       LET m == lastOp'.msg
           i == m.item.id
           q == m.item.quantity
           a == GetOrList(state.inventories, m.from)
           b == GetOrList(state.inventories, m.to)
           a2 == GetOrList(state'.inventories, m.from)
           b2 == GetOrList(state'.inventories, m.to)
           idx == FindIndex(a, i)
       IN /\ idx # 0
          /\ IF m.from # m.to
             THEN /\ SumQty(a2, i) = SumQty(a, i) - q
                  /\ SumQty(b2, i) = SumQty(b, i) + q
                  /\ Len(EntriesOf(a2, i)) = Len(EntriesOf(a, i)) - (IF a[idx].quantity = q THEN 1 ELSE 0)
                  /\ Len(EntriesOf(b2, i)) = Len(EntriesOf(b, i)) + (IF EntriesOf(b, i) = <<>> THEN 1 ELSE 0)
                  /\ EntriesOf(b, i) = <<>> => b2[Len(b2)] = m.item
             ELSE SumQty(a2, i) = SumQty(a, i)
          /\ OtherEntries(a2, i) = OtherEntries(a, i)
          /\ OtherEntries(b2, i) = OtherEntries(b, i)
          /\ \A p \in DOMAIN state.inventories \ {m.from, m.to} :
               p \in DOMAIN state'.inventories /\ state'.inventories[p] = state.inventories[p]
          /\ DOMAIN state'.inventories = DOMAIN state.inventories \cup {m.from, m.to}
          /\ state'.players = state.players
          /\ state'.objects = state.objects
          /\ state'.tick = state.tick]_vars

\* a transfer between two players has been accepted: it emptied the sender's entry,
\* which is gone, and the receiver, who held the item, holds the sum
C21_Witness ==
  /\ lastOp.op = "handleNetMessage"
  /\ lastOp.msg.t = "transfer"
  /\ lastOp.msg.from # lastOp.msg.to
  /\ lastOp.msg.item.quantity = 1
  /\ emitted # <<>>
  /\ FindIndex(GetOrList(state.inventories, lastOp.msg.from), lastOp.msg.item.id) = 0
  /\ SumQty(GetOrList(state.inventories, lastOp.msg.to), lastOp.msg.item.id) = 2

\* the step handles a move, an inventory update or a transfer that policy refuses:
\* the authority gate refuses its sender, or it is a transfer of more than the sender
\* holds of the item
PolicyRejected ==
  /\ lastOp'.op = "handleNetMessage"
  /\ lastOp'.msg.t \in {"move", "inventory", "transfer"}
  /\ IF AuthorityRejects(W, lastOp'.msg.from) THEN TRUE
     ELSE /\ lastOp'.msg.t = "transfer"
          /\ LET a == GetOrList(state.inventories, lastOp'.msg.from)
             IN \/ EntriesOf(a, lastOp'.msg.item.id) = <<>>
                \/ SumQty(a, lastOp'.msg.item.id) < lastOp'.msg.item.quantity

\* C22: an envelope that policy refuses (the authority gate for a move, an inventory
\* update or a transfer; a transfer of an item the sender lacks or holds less of)
\* leaves players, inventories, objects and tick as they are and emits no event.
C22_RejectionIsSilent ==
  [][PolicyRejected => state' = state /\ emitted' = <<>>]_vars

\* in timestamp mode a transfer of more than the sender's entry holds was refused
C22_Witness ==
  /\ mode = "timestamp"
  /\ lastOp.op = "handleNetMessage"
  /\ lastOp.msg.t = "transfer"
  /\ emitted = <<>>
  /\ EntriesOf(GetOrList(state.inventories, lastOp.msg.from), lastOp.msg.item.id) # <<>>
  /\ SumQty(GetOrList(state.inventories, lastOp.msg.from), lastOp.msg.item.id)
       < lastOp.msg.item.quantity

\* C23: no inventory lists an item id twice.
C23_NoDuplicateItemIds ==
  \A p \in DOMAIN state.inventories :
    \A i, j \in 1..Len(state.inventories[p]) :
      i # j => state.inventories[p][i].id # state.inventories[p][j].id

\* C24: every inventory entry has a quantity of 0 or more, and once a transfer has
\* been handled neither its sender nor its receiver holds an entry of quantity 0.
C24_QuantitiesStayPositive ==
  /\ \A p \in DOMAIN state.inventories :
       \A i \in 1..Len(state.inventories[p]) : state.inventories[p][i].quantity >= 0
  /\ (lastOp.op = "handleNetMessage" /\ lastOp.msg.t = "transfer") =>
       \A p \in {lastOp.msg.from, lastOp.msg.to} \cap DOMAIN state.inventories :
         \A i \in 1..Len(state.inventories[p]) : state.inventories[p][i].quantity # 0

(***************************************************************************)
(* Specification SpecLww: a fresh StateManager, in timestamp mode or in    *)
(* authoritative mode with the authority "10", receives move envelopes of  *)
(* the sender "1".  The envelopes are a set of moves with distinct seq     *)
(* values among -1 .. MaxSeq, each with a position of its own; they arrive *)
(* in any order, any number of times.  Each delivery is recorded with the  *)
(* set and with the seq values delivered so far.                           *)
(***************************************************************************)
LwwSeqs == (-1)..MaxSeq

LwwMove(n) == Spread(Move(P1, n + 5, n + 10), [seq |-> n])

InitLww ==
  /\ \E m \in {"timestamp", "authoritative"} : InitStateManager(m)
  /\ authoritativeClientId = IF mode = "authoritative" THEN P10 ELSE NoId
  /\ InitPeerManager(0)
  /\ pingIntervalId = FALSE
  /\ registering = 0
  /\ InitLibrary(FALSE)
  /\ emitted = <<>>
  /\ peersAtEmit = <<>>
  /\ threw = FALSE
  /\ sent = <<>>
  /\ \E S \in (SUBSET LwwSeqs) \ {{}} : lastOp = [op |-> "init", set |-> S, delivered |-> {}]
  /\ InitNoOrd
  /\ InitNoBus
  /\ InitNoWire

LwwDeliver ==
  \E n \in lastOp.set :
    /\ Commit(handleNetMessage(W, LwwMove(n)))
    /\ lastOp' = [op |-> "handleNetMessage", msg |-> LwwMove(n), set |-> lastOp.set,
                  delivered |-> lastOp.delivered \cup {n}]

NextLww == LwwDeliver

SpecLww == InitLww /\ [][NextLww]_vars

\* the largest seq of the set
LargestSeq == CHOOSE m \in lastOp.set : \A n \in lastOp.set : n <= m

\* players["1"] is at the position of the move with the largest seq
AtLargestSeq ==
  /\ P1 \in DOMAIN state.players
  /\ state.players[P1].position.x = LwwMove(LargestSeq).position.x
  /\ state.players[P1].position.y = LwwMove(LargestSeq).position.y

\* C25 as stated: once every envelope of the set has been delivered, in whatever
\* order and however often, the sender's position is that of the move with the
\* largest seq.
C25_LargestSeqWins == lastOp.delivered = lastOp.set => AtLargestSeq

\* C25, amended: the same in timestamp mode for seq values of 0 and more.
C25_LargestSeqWinsFromZero ==
  (/\ mode = "timestamp"
   /\ \A n \in lastOp.set : n >= 0
   /\ lastOp.delivered = lastOp.set) => AtLargestSeq

\* three moves have all been delivered, the last delivery was not the move with the
\* largest seq and was dropped
C25_Witness ==
  /\ mode = "timestamp"
  /\ lastOp.set = 0..2
  /\ lastOp.delivered = lastOp.set
  /\ lastOp.op = "handleNetMessage"
  /\ lastOp.msg.seq < LargestSeq
  /\ emitted = <<>>
  /\ AtLargestSeq

(***************************************************************************)
(* The host cleans up after a peer that left.  The local node "2" is the   *)
(* host of a session with the peers "10" and "3"; every node holds a player *)
(* and an inventory for each of the three.                                  *)
(***************************************************************************)
P3 == <<51>>
LeaveIds == {LocalId, P10, P3}

SessionState ==
  [players |-> [p \in LeaveIds |-> PS(p, 1, 1)],
   inventories |-> [p \in LeaveIds |-> <<Potion(1)>>],
   objects |-> <<>>, tick |-> 0]

InitLeave ==
  /\ state = SessionState
  /\ lastAppliedSeq = <<>>
  /\ mode = "timestamp"
  /\ authoritativeClientId = NoId
  /\ peers = <<[id |-> P10, rtc |-> 1], [id |-> P3, rtc |-> 2]>>
  /\ pendingInitiators = <<>>
  /\ pendingTimeouts = <<>>
  /\ bufferedRemoteIce = <<>>
  /\ hostId = LocalId
  /\ disposed = FALSE
  /\ pingIntervalId = TRUE
  /\ registering = 0
  /\ maxPlayers = 4
  /\ backpressure = DefaultBackpressure
  /\ infos = <<ConnectedInfo(P10), ConnectedInfo(P3)>>
  /\ subscribed = TRUE
  /\ seqCounters = <<>>
  /\ libDisposed = FALSE
  /\ cleanupOnPeerLeave \in BOOLEAN
  /\ userListeners = {}
  /\ overlayEnabled = FALSE
  /\ lastFrameTsByPlayer = <<>>
  /\ lastMoveTsByPlayer = <<>>
  /\ cfg = DefaultCfg
  /\ held = <<>>
  /\ InitObs
  /\ InitNoOrd
  /\ InitNoBus
  /\ InitNoWire

LeaveRosters == {<<LocalId>>, <<LocalId, P10>>, <<LocalId, P3>>, <<LocalId, P10, P3>>}

\* the signaling server announces the roster
LeaveRoster ==
  \E r \in LeaveRosters :
    /\ OnRosterOf(r)
    /\ lastOp' = [op |-> "onRoster", roster |-> r]

\* a peer sends its inventory
LeaveInventory ==
  \E h \in DOMAIN infos, now \in Times :
    /\ Has(infos[h], "dcReliable")
    /\ Commit(onMessage(W, infos[h].id, Text(Inventory(infos[h].id, <<>>)), now))
    /\ lastOp' = [op |-> "onMessage", from |-> infos[h].id]

NextLeave ==
  \/ LeaveRoster
  \/ LeaveInventory
  \/ ConnectionStateChange

SpecLeave == InitLeave /\ [][NextLeave]_vars

\* the paths of the entries of p
PathsOf(p) == <<<<"players", p>>, <<"inventories", p>>>>

\* the payload is a state_delta whose changes are those of the two paths of p
IsCleanupDelta(payload, p) ==
  /\ payload.shape = "object"
  /\ payload.value.t = "state_delta"
  /\ [i \in 1..Len(payload.value.delta.changes) |-> payload.value.delta.changes[i].path] = PathsOf(p)

\* the state of a peer of the session after its StateManager has handled the payload
\* it received from the host
ReceiverAfter(payload) ==
  handleNetMessage([W EXCEPT !.state = SessionState, !.lastAppliedSeq = <<>>,
                             !.mode = "timestamp"],
                   Spread(payload.value, [from |-> LocalId])).state

\* peerLeave(p) was emitted in the step that ends here, on a host that cleans up
HostHandledLeave(p) ==
  /\ hostId = LocalId
  /\ cleanupOnPeerLeave
  /\ \E i \in 1..Len(emitted') : emitted'[i] = <<"peerLeave", p>>

\* the peers that were connected when peerLeave(p) was emitted
PeersAtLeave(p) ==
  LET i == CHOOSE k \in 1..Len(emitted') : emitted'[k] = <<"peerLeave", p>>
  IN {peersAtEmit'[i][k] : k \in 1..Len(peersAtEmit'[i])}

HostRemoved(p) == p \notin DOMAIN state'.players /\ p \notin DOMAIN state'.inventories

\* every peer that was left holds the delta: sent on its channel or queued for it
DeltaBroadcast(p) ==
  \A q \in PeersAtLeave(p) :
    \/ \E i \in 1..Len(sent') : sent'[i].to = q /\ IsCleanupDelta(sent'[i].payload, p)
    \/ \E h \in DOMAIN infos' :
         /\ infos'[h].id = q
         /\ \E i \in 1..Len(OutboxOf(infos'[h], "reliable")) :
              IsCleanupDelta(OutboxOf(infos'[h], "reliable")[i], p)

ReceiverRemoved(p) ==
  \A i \in 1..Len(sent') :
    IsCleanupDelta(sent'[i].payload, p) =>
      /\ p \notin DOMAIN ReceiverAfter(sent'[i].payload).players
      /\ p \notin DOMAIN ReceiverAfter(sent'[i].payload).inventories

\* C26: with cleanupOnPeerLeave set, when the host handles peerLeave(p) it removes
\* players[p] and inventories[p] from its own state and broadcasts a state_delta for
\* those two paths; after a receiving peer applies that delta, its state has no entry
\* for p in players or in inventories.
C26_CleanupReachesPeers ==
  [][\A p \in LeaveIds :
       HostHandledLeave(p) => HostRemoved(p) /\ DeltaBroadcast(p) /\ ReceiverRemoved(p)]_vars

\* the part of C26 that is about the host
C26_HostCleansUp ==
  [][\A p \in LeaveIds : HostHandledLeave(p) => HostRemoved(p) /\ DeltaBroadcast(p)]_vars

\* a peer received the delta of a peer that left
C26_Witness ==
  /\ cleanupOnPeerLeave
  /\ \E p \in LeaveIds :
       /\ \E i \in 1..Len(emitted) : emitted[i] = <<"peerLeave", p>>
       /\ \E i \in 1..Len(sent) : IsCleanupDelta(sent[i].payload, p)
       /\ p \notin DOMAIN state.players

(***************************************************************************)
(* The application reads the state with getState(), keeps what it got and   *)
(* writes into it, while the session goes on.                               *)
(***************************************************************************)
MaxHeld == 2

\* what the application reads in an object it holds
HeldValue(h, st) == IF h.ref = InternalRef THEN st ELSE h.value

\* the application assigns change.value at change.path in the i-th object it holds:
\* every reference to that object sees the assignment
mutateHeld(w, i, change) ==
  LET v == SetPath(HeldValue(w.held[i], w.state), change.path, change.value)
  IN [w EXCEPT !.held = [j \in DOMAIN w.held |->
                           IF w.held[j].ref = w.held[i].ref THEN [w.held[j] EXCEPT !.value = v]
                           ELSE w.held[j]],
               !.state = IF w.held[i].ref = InternalRef THEN v ELSE @]

ViewMutations ==
  {[path |-> <<"tick">>, value |-> 9],
   [path |-> <<"players", P1>>, value |-> PS(P1, 7, 7)],
   [path |-> <<"inventories", LocalId>>, value |-> <<Potion(2)>>]}

ViewGetState ==
  /\ Len(held) < MaxHeld
  /\ Commit(getState(W))
  /\ lastOp' = [op |-> "getState"]

ViewMutate ==
  \E i \in DOMAIN held, c \in ViewMutations :
    /\ Commit(mutateHeld(W, i, c))
    /\ lastOp' = [op |-> "mutate", index |-> i, change |-> c]

\* the application drops the last reference it took
ViewRelease ==
  /\ held # <<>>
  /\ Commit([W EXCEPT !.held = SubSeq(@, 1, Len(@) - 1)])
  /\ lastOp' = [op |-> "release"]

ViewSetState ==
  \E c \in LocalChanges, now \in Times :
    /\ LastSeqOf(seqCounters, LocalId) < MaxSeq
    /\ state.tick < MaxTick
    /\ Commit(setStateAndBroadcast(W, LocalId, c, now))
    /\ lastOp' = [op |-> "setStateAndBroadcast"]

NextView ==
  \/ ViewGetState
  \/ ViewMutate
  \/ ViewRelease
  \/ ViewSetState
  \/ AnnouncePresence

SpecView == InitSession /\ [][NextView]_vars

\* the object the last getState() returned is a new one with the content of the state
ReturnedCopy ==
  LET n == Len(held')
  IN /\ n = Len(held) + 1
     /\ state' = state
     /\ held'[n].ref # InternalRef
     /\ \A j \in 1..Len(held) : held[j].ref # held'[n].ref /\ held'[j] = held[j]
     /\ HeldValue(held'[n], state') = state'
     /\ (lastOp.op = "getState" => HeldValue(held'[n], state') = HeldValue(held[Len(held)], state))

\* the assignment is seen in the object it was made in and nowhere else
MutationStaysOutside ==
  /\ state' = state
  /\ \A j \in DOMAIN held :
       j # lastOp'.index => HeldValue(held'[j], state') = HeldValue(held[j], state)

\* C27: getState() never exposes the internal state: two successive calls return
\* value-equal but distinct objects, and mutating a returned value changes neither
\* the internal state nor what any later getState() returns.
C27_GetStateIsACopy ==
  [][/\ lastOp'.op = "getState" => ReturnedCopy
     /\ lastOp'.op = "mutate" => MutationStaysOutside]_vars

\* the application wrote into the second of two objects it got from successive calls
C27_Witness ==
  /\ lastOp.op = "mutate"
  /\ Len(held) = 2
  /\ lastOp.index = 2
  /\ held[1].value = state
  /\ held[2].value # state
  /\ state # EmptyState

(***************************************************************************)
(* EventBus: a Map from event name to the Set of its listeners.  A Set      *)
(* iterates in insertion order, so it is the sequence of its members.  A    *)
(* listener is a function of the application: it returns or it throws.      *)
(***************************************************************************)
BusNames == {"playerMove", "ping"}
Fns == {[fn |-> i, throws |-> i = 2] : i \in 1..3}

\* set.add(fn): a member keeps its place
EventBusOn(ls, name, fn) ==
  IF name \notin DOMAIN ls THEN MapSet(ls, name, <<fn>>)
  ELSE IF fn \in Range(ls[name]) THEN ls
  ELSE MapSet(ls, name, Append(ls[name], fn))

RECURSIVE Without(_, _)
Without(q, fn) ==
  IF q = <<>> THEN <<>>
  ELSE IF Head(q) = fn THEN Without(Tail(q), fn) ELSE <<Head(q)>> \o Without(Tail(q), fn)

\* this.listeners.get(name)?.delete(fn)
EventBusOff(ls, name, fn) ==
  IF name \notin DOMAIN ls THEN ls ELSE MapSet(ls, name, Without(ls[name], fn))

EventBusClear(ls) == <<>>

\* set.forEach((fn) => fn(...a)): the calls made, and whether one of them threw
RECURSIVE ForEach(_)
ForEach(q) ==
  IF q = <<>> THEN [invoked |-> <<>>, threw |-> FALSE]
  ELSE IF Head(q).throws THEN [invoked |-> <<Head(q)>>, threw |-> TRUE]
  ELSE LET r == ForEach(Tail(q)) IN [invoked |-> <<Head(q)>> \o r.invoked, threw |-> r.threw]

EventBusEmit(ls, name) ==
  IF name \notin DOMAIN ls THEN [invoked |-> <<>>, threw |-> FALSE] ELSE ForEach(ls[name])

BusStep(ls, r, op) ==
  /\ listeners' = ls
  /\ invoked' = r.invoked
  /\ threw' = r.threw
  /\ lastOp' = op
  /\ UNCHANGED <<smVars, ordVars, envVars, pmVars, libVars, emitted, peersAtEmit, sent>>

NoCall == [invoked |-> <<>>, threw |-> FALSE]

BusOn ==
  \E name \in BusNames, fn \in Fns :
    BusStep(EventBusOn(listeners, name, fn), NoCall, [op |-> "on"])

BusOff ==
  \E name \in BusNames, fn \in Fns :
    BusStep(EventBusOff(listeners, name, fn), NoCall, [op |-> "off"])

BusClear == BusStep(EventBusClear(listeners), NoCall, [op |-> "clear"])

BusEmit ==
  \E name \in BusNames :
    BusStep(listeners, EventBusEmit(listeners, name), [op |-> "emit", name |-> name])

NextBus ==
  \/ BusOn
  \/ BusOff
  \/ BusClear
  \/ BusEmit

SpecBus == InitSM /\ [][NextBus]_vars

\* the listeners of the event at the time of the last emit
ListenersOf(name) == IF name \in DOMAIN listeners THEN listeners[name] ELSE <<>>

\* C28: EventBus.emit invokes every listener of the event synchronously, in
\* subscription order; a listener that throws does not prevent the listeners after
\* it from being invoked.
C28_EveryListenerRuns ==
  lastOp.op = "emit" => invoked = ListenersOf(lastOp.name)

\* as long as no listener throws, emit calls all of them in subscription order
C28_InOrderUntilAThrow ==
  lastOp.op = "emit" =>
    /\ Len(invoked) <= Len(ListenersOf(lastOp.name))
    /\ invoked = SubSeq(ListenersOf(lastOp.name), 1, Len(invoked))
    /\ ~threw => invoked = ListenersOf(lastOp.name)
    /\ threw => invoked[Len(invoked)].throws

(***************************************************************************)
(* Collisions.  The players "1", "2" and "10" stand on a line parallel to   *)
(* the x axis, at multiples of 8 world units, so that every halving of the  *)
(* single pass over the three pairs is exact.                               *)
(***************************************************************************)
ColXs == {0, 16, 32}
ColIds == {P1, LocalId, P10}

OnGrid(st) ==
  \A k \in DOMAIN st.players :
    st.players[k].position.x % 8 = 0 /\ st.players[k].position.y = 0

InitCol ==
  /\ \E S \in SUBSET ColIds :
      \E xs \in [S -> ColXs] :
        state = [EmptyState EXCEPT !.players = [p \in S |-> PS(p, xs[p], 0)]]
  /\ lastAppliedSeq = <<>>
  /\ mode = "timestamp"
  /\ authoritativeClientId = NoId
  /\ InitPeerManager(0)
  /\ pingIntervalId = FALSE
  /\ registering = 0
  /\ InitLibrary(FALSE)
  /\ InitObs
  /\ InitNoOrd
  /\ InitNoBus
  /\ InitNoWire

\* a move of a player arrives
ColMove ==
  \E p \in ColIds, x \in ColXs : HandleNetMessage(Move(p, x, 0))

ColResolve ==
  /\ OnGrid(state)
  /\ Commit(resolveCollisions(W))
  /\ lastOp' = [op |-> "resolveCollisions"]

NextCol ==
  \/ ColMove
  \/ ColResolve

SpecCol == InitCol /\ [][NextCol]_vars

\* the distance of two players on the line
Apart(a, b) == Abs(state.players[a].position.x - state.players[b].position.x)

\* C29: after MovementSystem.resolveCollisions every pair of distinct players is at
\* least 2 * playerRadius apart, for any number of players and any positions.
C29_AllPairsApart ==
  lastOp.op = "resolveCollisions" =>
    \A a \in DOMAIN state.players : \A b \in DOMAIN state.players \ {a} :
      Apart(a, b) >= 2 * playerRadius

\* with two players the pass leaves them 2 * playerRadius apart or more
C29_TwoPlayersApart ==
  (lastOp.op = "resolveCollisions" /\ Cardinality(DOMAIN state.players) = 2) =>
    \A a \in DOMAIN state.players : \A b \in DOMAIN state.players \ {a} :
      Apart(a, b) >= 2 * playerRadius

(***************************************************************************)
(* Bounded extrapolation.  The facade was built with movement options that  *)
(* make a clamped velocity advance one world unit per millisecond           *)
(* (maxSpeed 1000, smoothing 1), with a budget of 3 ms and a world of 10 by *)
(* 10; the peer "1" moves and the application calls interpolate.            *)
(***************************************************************************)
MaxNow == 5
MaxIntegratedMs == 6
IntTimes == 0..MaxNow
IntSpeeds == {1000, -1000, 5000}
IntXs == {-8, 4}

IntCfg(ignore) ==
  [maxSpeed |-> 1000, smoothingPerMille |-> 1000, extrapolationMs |-> 3,
   worldBounds |-> [width |-> 10, height |-> 10], ignoreWorldBounds |-> ignore,
   playerRadius |-> playerRadius]

InitInt ==
  /\ InitStateManager("timestamp")
  /\ authoritativeClientId = NoId
  /\ InitPeerManager(4)
  /\ pingIntervalId = FALSE
  /\ registering = 0
  /\ subscribed = TRUE
  /\ seqCounters = <<>>
  /\ libDisposed = FALSE
  /\ cleanupOnPeerLeave = FALSE
  /\ userListeners = {}
  /\ overlayEnabled = FALSE
  /\ lastFrameTsByPlayer = <<>>
  /\ lastMoveTsByPlayer = <<>>
  /\ cfg \in {IntCfg(ignore) : ignore \in BOOLEAN}
  /\ held = <<>>
  /\ InitObs
  /\ InitNoOrd
  /\ InitNoBus
  /\ InitNoWire

\* a move of "1" is accepted at time t: what follows is counted from it
IntMove ==
  \E t \in IntTimes, x \in IntXs, v \in IntSpeeds :
    /\ Commit(handleNetMessage([W EXCEPT !.perfNow = t],
                               Spread(Move(P1, x, 4), [velocity |-> [x |-> v, y |-> 0]])))
    /\ lastOp' = [op |-> "move", at |-> t, start |-> x, inside |-> (x >= 0 /\ x <= 10),
                  integratedMs |-> 0, inOrder |-> TRUE, last |-> t]

\* interpolate(now) after the move; the step keeps the account since the move
IntInterpolate ==
  \E now \in IntTimes :
    /\ lastOp.op # "init"
    /\ lastOp.integratedMs + AllowedMs(W, P1, now) <= MaxIntegratedMs
    /\ Commit(interpolate(W, now))
    /\ lastOp' = [lastOp EXCEPT !.op = "interpolate",
                                !.integratedMs = @ + AllowedMs(W, P1, now),
                                !.inOrder = @ /\ now >= lastOp.last,
                                !.last = now]

NextInt ==
  \/ IntMove
  \/ IntInterpolate

SpecInt == InitInt /\ [][NextInt]_vars

\* extrapolationMs / 1000 * smoothing * maxSpeed
MaxDisplacement == (cfg.extrapolationMs * cfg.smoothingPerMille * cfg.maxSpeed) \div 1000000

Displacement == Abs(state.players[P1].position.x - lastOp.start)

\* C30 as stated: for any player, over any sequence of interpolate(now) calls (any
\* now values) made after one accepted move and before the next, the total time
\* integrated into the position never exceeds extrapolationMs, so the displacement
\* on each axis is at most extrapolationMs/1000 * smoothing * maxSpeed.
C30_BoundedExtrapolation ==
  lastOp.op = "interpolate" =>
    /\ lastOp.integratedMs <= cfg.extrapolationMs
    /\ Displacement <= MaxDisplacement

\* C30 (amended): the same, for now values that never decrease and are not earlier
\* than the acceptance of the move, and for the displacement of a player that was
\* inside the world bounds when the move was accepted (or without world bounds).
C30_BoundedWhenTimeAdvances ==
  (lastOp.op = "interpolate" /\ lastOp.inOrder) =>
    /\ lastOp.integratedMs <= cfg.extrapolationMs
    /\ (lastOp.inside \/ cfg.ignoreWorldBounds) => Displacement <= MaxDisplacement

\* the whole budget was integrated, and a later frame added nothing
C30_Witness ==
  /\ lastOp.op = "interpolate"
  /\ lastOp.inOrder
  /\ lastOp.inside
  /\ lastOp.integratedMs = cfg.extrapolationMs
  /\ lastOp.last > lastOp.at + cfg.extrapolationMs
  /\ Displacement = MaxDisplacement

(***************************************************************************)
(* Claims about what still runs after PeerManager.dispose.                  *)
(***************************************************************************)
\* the step inserts nothing into peers or pendingInitiators, leaves hostId alone,
\* emits nothing, sends nothing and arms no timer
QuietStep ==
  /\ \A i \in 1..Len(peers') : HasKey(peers, peers'[i].id)
  /\ \A i \in 1..Len(pendingInitiators') : HasKey(pendingInitiators, pendingInitiators'[i].id)
  /\ hostId' = hostId
  /\ emitted' = <<>>
  /\ sent' = <<>>
  /\ pingIntervalId' => pingIntervalId
  /\ DOMAIN pendingTimeouts' \subseteq DOMAIN pendingTimeouts

\* C31: once PeerManager.dispose has run, no callback or continuation (a createOrJoin
\* suspended at its await of register included) inserts into peers or
\* pendingInitiators, changes hostId, emits a bus event, sends a signaling message or
\* arms a timer.
C31_NothingRunsAfterDispose ==
  [][disposed => QuietStep]_vars

(***************************************************************************)
(* ICE candidates.  The negotiation of SpecPM, with the candidates of the   *)
(* remote peers arriving through signaling at any time.                     *)
(***************************************************************************)
MaxIce == 2

IceCount(w) ==
  LET from == DOMAIN w.bufferedRemoteIce
      Sum[S \in SUBSET from] ==
        IF S = {} THEN 0
        ELSE LET k == CHOOSE x \in S : TRUE IN w.bufferedRemoteIce[k] + Sum[S \ {k}]
      Added[H \in SUBSET DOMAIN w.infos] ==
        IF H = {} THEN 0
        ELSE LET k == CHOOSE x \in H : TRUE IN w.infos[k].iceAdded + Added[H \ {k}]
  IN Sum[from] + Added[DOMAIN w.infos]

OnIceCandidate ==
  \E from \in RemoteIds \cup {LocalId} :
    /\ IceCount(W) < MaxIce
    /\ CommitLive(onIceCandidate(W, from))
    /\ lastOp' = [op |-> "onIceCandidate", from |-> from]

NextIce ==
  \/ OnRoster
  \/ OnAnswer
  \/ OnOffer
  \/ OfferAnnounced
  \/ AnswerApplied
  \/ OfferApplied
  \/ AnswerAnnounced
  \/ ConnectionStateChange
  \/ Dispose
  \/ OnIceCandidate

SpecIce == InitPM /\ [][NextIce]_vars

\* C32: for every remote peer, PeerManager never passes an ICE candidate to
\* addIceCandidate before that peer's remote description has been installed:
\* candidates that arrive earlier are buffered and applied only after
\* setRemoteDescription has completed, on the offer path and on the answer path.
C32_IceAfterRemoteDescription ==
  \A h \in DOMAIN infos : infos[h].iceEarly = 0

(***************************************************************************)
(* The pending-offer timer.  The negotiation of SpecCap, with the timers    *)
(* that createOfferTo arms: an armed timer fires unless it is cleared.      *)
(***************************************************************************)
PendingOfferTimeout ==
  \E id \in DOMAIN pendingTimeouts :
    /\ CommitLive(onPendingOfferTimeout(W, id, pendingTimeouts[id]))
    /\ lastOp' = [op |-> "pendingOfferTimeout", target |-> id]

NextTimer ==
  \/ RosterArrives
  \/ OfferArrives
  \/ OnAnswer
  \/ OfferAnnounced
  \/ AnswerApplied
  \/ OfferApplied
  \/ AnswerAnnounced
  \/ ConnectionStateChange
  \/ Dispose
  \/ PendingOfferTimeout

SpecTimer == InitCap /\ [][NextTimer]_vars /\ WF_vars(PendingOfferTimeout)

IsPending(id) == HasKey(pendingInitiators, id)

\* how many connections to id that this node initiated (they carry the channels
\* it created) are neither held by peers nor closed
LooseInitiated(is, ps, id) ==
  Cardinality({h \in DOMAIN is : /\ is[h].id = id
                                  /\ Has(is[h], "dcReliable")
                                  /\ is[h].connectionState # "closed"
                                  /\ ~(\E i \in 1..Len(ps) : ps[i].rtc = h)})

\* the entry of id leaves pendingInitiators in this step with its timer gone, and
\* unless it was promoted to peers its connection is closed
RemovedCleanly(id) ==
  /\ id \notin DOMAIN pendingTimeouts'
  /\ \/ HasKey(peers', id) /\ ~HasKey(peers, id)
     \/ LooseInitiated(infos', peers', id) < LooseInitiated(infos, peers, id)

MaxSession == 2
MaxLog == 3

InitWire ==
  /\ InitStateManager("timestamp")
  /\ authoritativeClientId = NoId
  /\ peers = <<[id |-> P1, rtc |-> 1]>>
  /\ pendingInitiators = <<>>
  /\ pendingTimeouts = <<>>
  /\ bufferedRemoteIce = <<>>
  /\ hostId = P1
  /\ disposed = FALSE
  /\ pingIntervalId = TRUE
  /\ registering = 0
  /\ maxPlayers = 4
  /\ backpressure = DefaultBackpressure
  /\ infos = <<ConnectedInfo(P1)>>
  /\ InitLibrary(TRUE)
  /\ InitObs
  /\ InitNoOrd
  /\ InitNoBus
  /\ InitNoWire

\* the library of "1", connected to this node with both channels open
RemoteLibrary ==
  [W EXCEPT !.seqCounters = wire.seqCounters,
            !.libDisposed = FALSE,
            !.disposed = FALSE,
            !.state = EmptyState,
            !.backpressure = DefaultBackpressure,
            !.peers = <<[id |-> LocalId, rtc |-> 1]>>,
            !.infos = <<ConnectedInfo(LocalId)>>]

\* the payloads the call handed to the channel of that kind
PayloadsVia(w, kind) ==
  LET via == SelectSeq(w.sent, LAMBDA e : e.via = kind)
  IN [i \in 1..Len(via) |-> via[i].payload]

\* the seq values of the envelopes the call sent
SeqsOf(w) ==
  LET withSeq == SelectSeq(w.sent, LAMBDA e : Has(e.payload.value, "seq"))
  IN [i \in 1..Len(withSeq) |-> withSeq[i].payload.value.seq]

\* the connection of "1" that is in peers has an open channel of that kind
ChannelIsOpen(kind) ==
  /\ HasKey(peers, P1)
  /\ Has(infos[Get(peers, P1)], DcField(kind))
  /\ infos[Get(peers, P1)][DcField(kind)].readyState = "open"

WireSelfIds == {P1, P10}

\* the application of "1" calls its library
RemoteCalls(r, selfId) ==
  /\ ChannelIsOpen("reliable") /\ ChannelIsOpen("unreliable")
  /\ LastSeqOf(wire.seqCounters, selfId) < MaxSeq
  /\ Len(wire.log) < MaxLog
  /\ wire' = [wire EXCEPT !.seqCounters = r.seqCounters,
                          !.selfIds = @ \cup {selfId},
                          !.log = @ \o SeqsOf(r),
                          !.reliable = @ \o PayloadsVia(r, "reliable"),
                          !.unreliable = @ \o PayloadsVia(r, "unreliable")]
  /\ Assign(W)

RemoteMove ==
  \E selfId \in WireSelfIds, now \in Times :
    /\ RemoteCalls(broadcastMove(RemoteLibrary, selfId, [x |-> 1, y |-> 1], Undefined, now), selfId)
    /\ lastOp' = [op |-> "remote broadcastMove"]

RemoteInventory ==
  \E selfId \in WireSelfIds, now \in Times :
    /\ RemoteCalls(updateInventory(RemoteLibrary, selfId, <<Potion(1)>>, <<>>, now), selfId)
    /\ lastOp' = [op |-> "remote updateInventory"]

\* the sequence without its i-th element
RemoveAt(q, i) == [j \in 1..(Len(q) - 1) |-> IF j < i THEN q[j] ELSE q[j + 1]]

\* dc.onmessage of the channel of that kind of the connection of "1"
WireDeliver(kind, i) ==
  /\ ChannelIsOpen(kind)
  /\ Assign(onMessage(W, P1, wire[kind][i], ListenerNow))
  /\ wire' = [wire EXCEPT ![kind] = RemoveAt(@, i), !.delivered = @ + 1]
  /\ lastOp' = [op |-> "onMessage", from |-> P1, data |-> wire[kind][i], via |-> kind,
                first |-> wire.delivered = 0]

DeliverReliable ==
  /\ wire.reliable # <<>>
  /\ WireDeliver("reliable", 1)

DeliverUnreliable == \E i \in 1..Len(wire.unreliable) : WireDeliver("unreliable", i)

NextWire ==
  \/ RemoteMove
  \/ RemoteInventory
  \/ DeliverReliable
  \/ DeliverUnreliable

SpecWire == InitWire /\ [][NextWire]_vars

\* the frame delivered in the last step passed the seq check: its listener event
\* followed netMessage
Processed ==
  \E i \in 1..Len(emitted) : emitted[i][1] \in {"playerMove", "inventoryUpdate"}

\* every call of "1" in this session passed its own id as selfId
OwnIdOnly == wire.selfIds \subseteq {P1}

\* C34: a message that "1" sends on the reliable channel and that the transport
\* delivers to this node is processed by it: it is never discarded by the per-sender
\* seq check because a higher-numbered move that "1" sent later on the unreliable
\* channel was delivered first.
C34_ReliableIsProcessed ==
  (/\ lastOp.op = "onMessage"
   /\ lastOp.via = "reliable"
   /\ OwnIdOnly) => Processed

\* C40: within one session the seq values of the successive outbound envelopes of a
\* node are strictly increasing in send order, whatever selfId argument is passed to
\* the calls, so that a receiver, which attributes them all to the transport id,
\* never drops one as stale when they arrive in send order.
C40_SeqStrictlyIncreasing ==
  \A i, j \in 1..Len(wire.log) : i < j => wire.log[i] < wire.log[j]

\* the same when every call passes the node's own id
C40_SeqIncreasingForOwnId == OwnIdOnly => C40_SeqStrictlyIncreasing

(***************************************************************************)
(* Specification SpecRejoin: the session of SpecWire in which the          *)
(* connection of "1" can go away; "1" then starts a new P2PGameLibrary and *)
(* makes a new offer.  The application of "1" publishes its moves.         *)
(***************************************************************************)
\* the connection of "1" is gone: "1" starts a new P2PGameLibrary, and what the old
\* one had sent is lost with its connection
RemoteRestart ==
  /\ wire.session < MaxSession
  /\ wire.log # <<>>
  /\ \A h \in DOMAIN infos : infos[h].id # P1
  /\ wire' = [NoWire EXCEPT !.session = wire.session + 1]
  /\ Assign(W)
  /\ lastOp' = [op |-> "remote start"]

\* the new library of "1" makes its offer
RejoinOffer ==
  /\ wire.session > 1
  /\ \A h \in DOMAIN infos : infos[h].id # P1
  /\ OnOfferOf(P1)
  /\ lastOp' = [op |-> "onRemoteDescription"]

NextRejoin ==
  \/ RemoteMove
  \/ DeliverUnreliable
  \/ RemoteRestart
  \/ RejoinOffer
  \/ OfferApplied
  \/ AnswerAnnounced
  \/ ConnectionStateChange
  \/ DataChannel
  \/ ChannelOpen

SpecRejoin == InitWire /\ [][NextRejoin]_vars

\* C35: after the peer "1" leaves and rejoins with a fresh session whose seq restarts
\* at 1, its envelopes are accepted by the node that stayed: the lastAppliedSeq entry
\* of its previous session does not cause them to be dropped.
C35_RejoinedPeerIsAccepted ==
  (/\ lastOp.op = "onMessage"
   /\ wire.session > 1
   /\ lastOp.first
   /\ lastOp.data.value.seq = 1
   /\ OwnIdOnly) => Processed

(***************************************************************************)
(* Specification SpecFlush: the outbound path of SpecNet in which a        *)
(* channel that is connecting does open (its open event is the one place   *)
(* where an outbox is handed to its channel).                              *)
(***************************************************************************)
SpecFlush == InitNet /\ [][NextNet]_vars /\ WF_vars(ChannelOpen)

\* the PeerInfo of id in peers holds queued payloads of that kind
Queued(id, k) ==
  /\ HasKey(peers, id)
  /\ OutboxOf(infos[Get(peers, id)], k) # <<>>

\* its channel of that kind is open or on its way to open
OpenOrOpening(id, k) ==
  /\ HasKey(peers, id)
  /\ Has(infos[Get(peers, id)], DcField(k))
  /\ infos[Get(peers, id)][DcField(k)].readyState \in {"connecting", "open"}

\* C36: every payload placed in the outbox of a peer is eventually handed to the data
\* channel, provided the channel is open or becomes open and the peer stays in peers;
\* this includes the payloads queued while the unreliable channel was already open
\* but over the backpressure threshold.
C36_OutboxEventuallyFlushed ==
  \A k \in Kinds :
    (Queued(P1, k) /\ OpenOrOpening(P1, k)) ~> (~Queued(P1, k) \/ ~OpenOrOpening(P1, k))

\* the same for the payloads queued before the channel opened
C36_FlushedWhenChannelOpens ==
  \A k \in Kinds :
    (/\ Queued(P1, k)
     /\ OpenOrOpening(P1, k)
     /\ infos[Get(peers, P1)][DcField(k)].readyState = "connecting")
      ~> (~Queued(P1, k) \/ ~OpenOrOpening(P1, k))

(***************************************************************************)
(* Specification SpecHostLeave: a session whose host is the peer "1"; the  *)
(* local node "2" and the peer "10" are connected to it, and the local     *)
(* node cleans up after peers that leave.  Every node holds a player and   *)
(* an inventory for each of the three.                                      *)
(***************************************************************************)
HostLeaveIds == {LocalId, P1, P10}

InitHostLeave ==
  /\ state = [players |-> [p \in HostLeaveIds |-> PS(p, 1, 1)],
              inventories |-> [p \in HostLeaveIds |-> <<Potion(1)>>],
              objects |-> <<>>, tick |-> 0]
  /\ lastAppliedSeq = <<>>
  /\ mode = "timestamp"
  /\ authoritativeClientId = NoId
  /\ peers = <<[id |-> P1, rtc |-> 1], [id |-> P10, rtc |-> 2]>>
  /\ pendingInitiators = <<>>
  /\ pendingTimeouts = <<>>
  /\ bufferedRemoteIce = <<>>
  /\ hostId = P1
  /\ disposed = FALSE
  /\ pingIntervalId = TRUE
  /\ registering = 0
  /\ maxPlayers = 4
  /\ backpressure = DefaultBackpressure
  /\ infos = <<ConnectedInfo(P1), ConnectedInfo(P10)>>
  /\ subscribed = TRUE
  /\ seqCounters = <<>>
  /\ libDisposed = FALSE
  /\ cleanupOnPeerLeave = TRUE
  /\ userListeners = {}
  /\ overlayEnabled = FALSE
  /\ lastFrameTsByPlayer = <<>>
  /\ lastMoveTsByPlayer = <<>>
  /\ cfg = DefaultCfg
  /\ held = <<>>
  /\ InitObs
  /\ InitNoOrd
  /\ InitNoBus
  /\ InitNoWire

NextHostLeave ==
  \/ OnRoster
  \/ LeaveInventory
  \/ ConnectionStateChange

SpecHostLeave == InitHostLeave /\ [][NextHostLeave]_vars

\* the host "1" leaves in this step, and the local node is the minimum of the ids
\* that remain
HostLeftToLocal ==
  /\ hostId = P1
  /\ HasKey(peers, P1)
  /\ \E i \in 1..Len(emitted') : emitted'[i] = <<"peerLeave", P1>>
  /\ ReduceMin(<<LocalId>> \o Keys(peers')) = LocalId

\* C37: with cleanupOnPeerLeave set, when the peer that leaves was the host, the node
\* that becomes host removes the entries of the departed player and broadcasts the
\* cleanup delta: the peerLeave handler observes the host elected after the departure.
C37_NewHostCleansUp ==
  [][HostLeftToLocal => HostRemoved(P1) /\ DeltaBroadcast(P1)]_vars

\* a peer that is not the host leaves a session the local node hosts, and the local
\* node cleans up
C37_HostCleansUpAfterOthers ==
  [][(/\ hostId = LocalId
      /\ \E i \in 1..Len(emitted') : emitted'[i] = <<"peerLeave", P10>>)
     => HostRemoved(P10) /\ DeltaBroadcast(P10)]_vars

(***************************************************************************)
(* Specification SpecEvents: the PeerManager of SpecPM with an application *)
(* that listens to peerJoin and peerLeave from the start.                  *)
(***************************************************************************)
InitEvents ==
  /\ InitStateManager("timestamp")
  /\ authoritativeClientId = NoId
  /\ InitPeerManager(0)
  /\ pingIntervalId = TRUE
  /\ registering = 0
  /\ InitLibrary(FALSE)
  /\ InitObs
  /\ InitNoOrd
  /\ InitNoBus
  /\ wire = NoWire
  /\ history = [listening |-> TRUE, joined |-> {}, doubleJoin |-> FALSE, orphanLeave |-> FALSE]

SpecEvents == InitEvents /\ [][NextPM]_vars

\* C38: for each remote peer p the events peerJoin(p) and peerLeave(p) alternate,
\* starting with peerJoin: peerLeave(p) is emitted only for a peer whose peerJoin(p)
\* was emitted and not yet matched, peerJoin(p) is not emitted twice without a
\* peerLeave(p) between, and one departure produces exactly one peerLeave(p).
C38_JoinLeaveAlternate == ~history.doubleJoin /\ ~history.orphanLeave

\* the part of C38 about peerJoin
C38_NoDoubleJoin == ~history.doubleJoin

\* C39: the key sets of peers and pendingInitiators are disjoint in every reachable
\* state, so a pending-offer timer can only close a connection that is not in peers.
C39_PeersAndPendingDisjoint ==
  \A i \in 1..Len(peers) : ~HasKey(pendingInitiators, peers[i].id)
====
